---- MODULE Spec2Model ----
(***************************************************************************)
(* State-machine model of the sandwich-swap Anchor program.                *)
(*                                                                         *)
(* The persistent state is the set of SandwichState accounts, addressed by *)
(* the seed bytes of their program-derived address, and the log of         *)
(* SandwichCompleteEvent emissions.  Every instruction is one atomic       *)
(* action: a transaction that returns an error leaves no trace on chain,   *)
(* so the accounts and the log are then unchanged.  The variable `last'    *)
(* records what the most recent instruction did.                           *)
(***************************************************************************)
EXTENDS Integers, Sequences, FiniteSets, TLC

(***************************************************************************)
(* Bounds of the model.                                                    *)
(***************************************************************************)
MaxEvents == 2
MaxSid == 1
GotExtra == 7
BalUnit == 40
FloatScale == 100

(***************************************************************************)
(* Program constants.                                                      *)
(***************************************************************************)
FEE_RATE_DENOMINATOR_VALUE == 1000000
\* A dust floor one decimal place short.
DustFloorShort == 100 \div 10
DustFloor == 100
SafetyPct == 95
MinOutPct == 95
MinProfitFactor == 1005
BackrunMarginPct == 98
SearchRounds == 20
PartsPerMillion == 10 ^ 6

Min(a, b) == IF a < b THEN a ELSE b
Max(a, b) == IF a > b THEN a ELSE b
saturating_sub(a, b) == IF a > b THEN a - b ELSE 0

(***************************************************************************)
(* Instruction data.  A u64 argument is eight little-endian bytes; the     *)
(* model's amounts stay below 2^31, so the upper four bytes are zero.      *)
(***************************************************************************)
LE8(v) == << v % 256, (v \div 256) % 256, (v \div 65536) % 256,
             (v \div 16777216) % 256, 0, 0, 0, 0 >>

Args1(a) == LE8(a)
Args3(a, b, c) == LE8(a) \o LE8(b) \o LE8(c)

Undecoded == [ok |-> FALSE, val |-> << >>]

\* #[instruction(sandwich_id: u64)]: the first eight bytes of the data.
BorshU64(data) ==
  IF Len(data) < 8 THEN Undecoded
  ELSE [ok |-> TRUE, val |-> SubSeq(data, 1, 8)]

IsCont(b) == b >= 128 /\ b <= 191

RECURSIVE Utf8Valid(_)
Utf8Valid(s) ==
  IF Len(s) = 0 THEN TRUE
  ELSE LET b == s[1]
           n == Len(s)
       IN  IF b < 128 THEN Utf8Valid(Tail(s))
           ELSE IF b >= 194 /\ b <= 223
             THEN n >= 2 /\ IsCont(s[2]) /\ Utf8Valid(SubSeq(s, 3, n))
           ELSE IF b >= 224 /\ b <= 239
             THEN /\ n >= 3
                  /\ IsCont(s[2]) /\ IsCont(s[3])
                  /\ (b = 224 => s[2] >= 160)
                  /\ (b = 237 => s[2] <= 159)
                  /\ Utf8Valid(SubSeq(s, 4, n))
           ELSE IF b >= 240 /\ b <= 244
             THEN /\ n >= 4
                  /\ IsCont(s[2]) /\ IsCont(s[3]) /\ IsCont(s[4])
                  /\ (b = 240 => s[2] >= 144)
                  /\ (b = 244 => s[2] <= 143)
                  /\ Utf8Valid(SubSeq(s, 5, n))
           ELSE FALSE

\* #[instruction(sandwich_id: String)]: a u32 length, then that many bytes
\* of UTF-8, read from the start of the data whatever the handler's own
\* first argument is.
BorshString(data) ==
  IF Len(data) < 4 THEN Undecoded
  ELSE LET n == data[1] + 256 * data[2] + 65536 * data[3]
                + 16777216 * (data[4] % 128)
       IN  IF data[4] >= 128 \/ n > Len(data) - 4 THEN Undecoded
           ELSE IF ~Utf8Valid(SubSeq(data, 5, 4 + n)) THEN Undecoded
           ELSE [ok |-> TRUE, val |-> SubSeq(data, 5, 4 + n)]

(***************************************************************************)
(* SandwichState and SandwichCompleteEvent.  The fields no instruction     *)
(* reads back (timestamp, bump, target_tx_signature) are left out.         *)
(***************************************************************************)
SandwichState(out, inp, sid, done, tin, tout) ==
  [frontrun_output_amount |-> out, frontrun_input_amount |-> inp,
   sandwich_id |-> sid, is_complete |-> done,
   token_in_mint |-> tin, token_out_mint |-> tout]

\* A freshly allocated account is zero-filled.
ZeroState == SandwichState(0, 0, 0, FALSE, "ZERO", "ZERO")

SandwichCompleteEvent(sid, profit, inp, out) ==
  [sandwich_id |-> sid, profit |-> profit, input_amount |-> inp,
   output_amount |-> out]

NoEvent == [sandwich_id |-> -1, profit |-> 0, input_amount |-> 0,
            output_amount |-> 0]

(***************************************************************************)
(* CurveCalculator of the CPMM family: the three fee rates are summed and  *)
(* taken off the input before the constant-product formula.                *)
(***************************************************************************)
NoSwap == [ok |-> FALSE, source_amount_swapped |-> 0,
           destination_amount_swapped |-> 0]

CeilDiv(a, b) == (a + b - 1) \div b

CurveSwapBaseInput(amount, rin, rout, tfee, pfee, ffee) ==
  LET fee  == CeilDiv(amount * (tfee + pfee + ffee), FEE_RATE_DENOMINATOR_VALUE)
      less == amount - fee
  IN  IF less < 0 \/ rin + less <= 0 \/ rout <= 0 THEN NoSwap
      ELSE LET out == (less * rout) \div (rin + less)
           IN  IF out >= rout THEN NoSwap
               ELSE [ok |-> TRUE, source_amount_swapped |-> amount,
                     destination_amount_swapped |-> out]

\* The inverse quote: the input, fee included, that buys `amount_out'.
CurveSwapBaseOutput(amount_out, rin, rout, tfee, pfee, ffee) ==
  IF amount_out >= rout \/ rin <= 0 THEN NoSwap
  ELSE LET rate == tfee + pfee + ffee
           swapped == CeilDiv(amount_out * rin, rout - amount_out)
           pre_fee == swapped + CeilDiv(swapped * rate,
                                        FEE_RATE_DENOMINATOR_VALUE - rate)
       IN  [ok |-> TRUE, source_amount_swapped |-> pre_fee,
            destination_amount_swapped |-> amount_out]

\* Fees::protocol_fee
FeesProtocolFee(amount, rate) == (amount * rate) \div FEE_RATE_DENOMINATOR_VALUE

(***************************************************************************)
(* Results of the planners: a value, or the error the handler returns.     *)
(***************************************************************************)
\* A Result<u64>; of a search, also the candidates it evaluated and the
\* number of rounds it ran.
Planned(v) == [err |-> "Ok", val |-> v, mids |-> {}, rounds |-> 0]
PlanFails(e) == [err |-> e, val |-> 0, mids |-> {}, rounds |-> 0]

\* One more round, on the candidate `mid', before the rounds of r.
Visited(mid, r) == [r EXCEPT !.mids = @ \cup {mid}, !.rounds = @ + 1]

\* calculate_expected_output of the CPMM handlers
cpmm_calculate_expected_output(amount_in, rin, rout, fees) ==
  LET r == CurveSwapBaseInput(amount_in, rin, rout, fees[1], fees[2], fees[3])
  IN  IF r.ok THEN Planned(r.destination_amount_swapped)
      ELSE PlanFails("CalculationFailure")

\* The profit the search of swap_base_input.rs gives the candidate `mid',
\* as the round of cpmm_search below computes it: the front-run, the
\* victim's trade on the shifted reserves, and the sale of what the
\* front-run received.
cpmm_candidate_profit(mid, reserve_in, reserve_out, target_amount_in, fees) ==
  LET frontrun_result ==
        CurveSwapBaseInput(mid, reserve_in, reserve_out, fees[1], fees[2], fees[3])
      frontrun_output_amount == frontrun_result.destination_amount_swapped
      new_reserve_in == reserve_in + frontrun_result.source_amount_swapped
      new_reserve_out == reserve_out - frontrun_output_amount
      after == CurveSwapBaseInput(target_amount_in, new_reserve_in, new_reserve_out,
                                  fees[1], fees[2], fees[3])
      after_target_reserve_in == new_reserve_in + target_amount_in
      after_target_reserve_out == new_reserve_out - after.destination_amount_swapped
      backrun_result ==
        CurveSwapBaseInput(frontrun_output_amount, after_target_reserve_out,
                           after_target_reserve_in, fees[1], fees[2], fees[3])
      backrun_output_amount == backrun_result.destination_amount_swapped
  IN  [ok |-> frontrun_result.ok /\ after.ok /\ backrun_result.ok,
       profit |-> saturating_sub(backrun_output_amount, mid)]

\* One candidate of the search: the three legs simulated on the curve.
\* `low', `high', `best_amount', `best_profit' are the loop's variables.
RECURSIVE cpmm_search(_, _, _, _, _, _, _, _, _, _)
cpmm_search(rounds, low, high, best_amount, best_profit, reserve_in, reserve_out, safe_slippage_bps, target_amount_in, fees) ==
  IF rounds = 0 \/ low >= high THEN Planned(best_amount)
  ELSE
    LET mid == (low + high) \div 2
        frontrun_result ==
          CurveSwapBaseInput(mid, reserve_in, reserve_out, fees[1], fees[2], fees[3])
        frontrun_output_amount == frontrun_result.destination_amount_swapped
        new_reserve_in == reserve_in + frontrun_result.source_amount_swapped
        new_reserve_out == reserve_out - frontrun_output_amount
        before == CurveSwapBaseInput(target_amount_in, reserve_in, reserve_out,
                                     fees[1], fees[2], fees[3])
        after == CurveSwapBaseInput(target_amount_in, new_reserve_in, new_reserve_out,
                                    fees[1], fees[2], fees[3])
        target_expected_output_before == before.destination_amount_swapped
        target_expected_output_after == after.destination_amount_swapped
        price_impact_bps ==
          ((target_expected_output_before - target_expected_output_after) * 10000)
            \div target_expected_output_before
        after_target_reserve_in == new_reserve_in + target_amount_in
        after_target_reserve_out == new_reserve_out - target_expected_output_after
        backrun_result ==
          CurveSwapBaseInput(frontrun_output_amount, after_target_reserve_out,
                             after_target_reserve_in, fees[1], fees[2], fees[3])
        profit == saturating_sub(backrun_result.destination_amount_swapped, mid)
    IN  Visited(mid,
        IF ~frontrun_result.ok \/ ~before.ok \/ ~after.ok
          THEN PlanFails("CalculationFailure")
        ELSE IF target_expected_output_before = 0
                  \/ target_expected_output_after > target_expected_output_before
          THEN PlanFails("Panic")
        ELSE IF price_impact_bps > safe_slippage_bps
          THEN cpmm_search(rounds - 1, low, mid - 1, best_amount, best_profit,
                           reserve_in, reserve_out, safe_slippage_bps,
                           target_amount_in, fees)
        ELSE IF ~backrun_result.ok THEN PlanFails("CalculationFailure")
        ELSE cpmm_search(rounds - 1,
                         IF profit > 0 THEN mid + 1 ELSE low,
                         IF profit > 0 THEN high ELSE mid - 1,
                         IF profit > best_profit THEN mid ELSE best_amount,
                         IF profit > best_profit THEN profit ELSE best_profit,
                         reserve_in, reserve_out, safe_slippage_bps,
                         target_amount_in, fees))

\* calculate_optimal_sandwich_amount of swap_base_input.rs
cpmm_calculate_optimal_sandwich_amount(reserve_in, reserve_out, safe_slippage_bps, target_actual_amount_in, fees) ==
  cpmm_search(SearchRounds, 1, reserve_in \div 10, reserve_in \div 100, 0,
              reserve_in, reserve_out, safe_slippage_bps,
              target_actual_amount_in, fees)

\* calculate_minimum_out_for_sandwich of swap_base_input.rs
cpmm_calculate_minimum_out_for_sandwich(amount_in, rin, rout, fees) ==
  LET e == cpmm_calculate_expected_output(amount_in, rin, rout, fees)
  IN  IF e.err # "Ok" THEN e ELSE Planned((e.val * MinOutPct) \div 100)

(***************************************************************************)
(* The closed-form planners compute in f64.  The model carries an f64      *)
(* value v as the integer v * FloatScale, and a fee or a ratio as parts    *)
(* per million, with products taken through MulDiv so that no              *)
(* intermediate leaves 32-bit signed integers.                              *)
(***************************************************************************)
IntMax == (2^30 - 1) + 2^30

\* << floor(a * b / c), (a * b) % c >> for a, b >= 0 and c > 0, by halving
\* b when the product does not fit
RECURSIVE MulDivRem(_, _, _)
MulDivRem(a, b, c) ==
  IF a = 0 \/ b = 0 THEN << 0, 0 >>
  ELSE IF a <= IntMax \div b THEN << (a * b) \div c, (a * b) % c >>
  ELSE LET h == MulDivRem(a, b \div 2, c)
           add == IF b % 2 = 1 THEN a ELSE 0
           r == (2 * h[2]) + (add % c)
       IN  << (2 * h[1]) + (add \div c) + (r \div c), r % c >>

MulDiv(a, b, c) == MulDivRem(Max(a, b), Min(a, b), c)[1]

FMul(x, y) == MulDiv(x, y, FloatScale)
FDiv(x, y) == MulDiv(x, FloatScale, y)
ToFloat(n) == n * FloatScale
\* the quantisation rounding up instead of down
RoundedUp(x) == (x + FloatScale - 1) \div FloatScale
Floor(x) == x \div FloatScale

\* the largest r with r * r <= x * y, by Newton's iteration from r >= it
RECURSIVE SqrtSearch(_, _, _)
SqrtSearch(x, y, r) ==
  LET next == (r + MulDiv(x, y, r)) \div 2
  IN  IF next >= r THEN r ELSE SqrtSearch(x, y, next)

\* sqrt(x * y) of two scaled values, scaled
SqrtOfProduct(x, y) ==
  IF x = 0 \/ y = 0 THEN 0 ELSE SqrtSearch(x, y, (x + y + 1) \div 2)

\* x * (1 - fee)
LessFee(x, fee_ppm) == x - MulDiv(x, fee_ppm, PartsPerMillion)

\* x / y in parts per million, for x >= 0 and y > 0
Fraction(x, y) == MulDiv(x, PartsPerMillion, y)

\* x / y < ppm / 10^6, for y > 0
BelowFraction(x, y, ppm) == x < 0 \/ Fraction(x, y) < ppm

\* Option<(u64, u64, f64)>: the two amounts and the profit ratio
None == [some |-> FALSE, a |-> 0, b |-> 0, profit_pct |-> 0]
Some(a, b, profit_pct) == [some |-> TRUE, a |-> a, b |-> b, profit_pct |-> profit_pct]

(***************************************************************************)
(* The state.                                                              *)
(***************************************************************************)
VARIABLES store, events, last, race, calc

vars == << store, events, last, race, calc >>

\* What an instruction did: the error it returned ("Ok" for none), whether
\* its cross-program swap was invoked, with what amounts, what the swap paid
\* into the user's receiving account, the record it leaves and the event
\* it emits.
Outcome(err, cpi, swap_in, swap_min, got, rec, ev) ==
  [err |-> err, cpi |-> cpi, swap_in |-> swap_in, swap_min |-> swap_min,
   got |-> got, rec |-> rec, ev |-> ev]

Rejected(err) == Outcome(err, "none", 0, 0, 0, ZeroState, NoEvent)
\* A handler that drops the error of its swap: it goes on to mark the
\* record complete.
SwapErrorDropped(swap_in, swap_min) ==
  Outcome("Ok", "failed", swap_in, swap_min, 0,
          [ZeroState EXCEPT !.is_complete = TRUE], NoEvent)

SwapFailed(swap_in, swap_min) ==
  Outcome("SwapFailed", "failed", swap_in, swap_min, 0, ZeroState, NoEvent)

Put(key, rec) ==
  [k \in DOMAIN store \cup {key} |-> IF k = key THEN rec ELSE store[k]]

\* The external venue.  An exact-input swap fails, or it takes the amount
\* offered and pays at least the minimum asked; nothing is paid for nothing.
Unswapped == [ok |-> FALSE, got |-> 0, paid |-> 0]

SwapOutcomes(amount_in, min_out) ==
  {Unswapped}
    \cup (IF amount_in > 0
            THEN {[ok |-> TRUE, got |-> min_out + GotExtra, paid |-> amount_in]}
          ELSE IF min_out = 0 THEN {[ok |-> TRUE, got |-> 0, paid |-> 0]}
          ELSE {})

\* An exact-output swap fails, or it delivers the amount asked and takes no
\* more than the maximum offered.
BuyOutcomes(amount_out, max_in) ==
  {Unswapped}
    \cup (IF max_in > 0
            THEN {[ok |-> TRUE, got |-> amount_out, paid |-> max_in]}
          ELSE IF amount_out = 0 THEN {[ok |-> TRUE, got |-> 0, paid |-> 0]}
          ELSE {})

\* The mints a call presents for comparison with the record, as the pair
\* << token_in_mint, token_out_mint >> of the front-run; "ANY" where the
\* call presents no account for that side.
NoMints == << >>

\* An attempt of an instruction: the key of the record it addresses, the
\* mints it presents, and what it did.
Attempt(key, mints, o) == [key |-> key, mints |-> mints, o |-> o]

\* An instruction whose account writes outlive its failure: the record it
\* was building is stored whatever it returns.
EffectKeptOnFailure(op, key, mints, o) ==
  /\ o.err = "Ok" /\ o.ev # NoEvent => Len(events) < MaxEvents
  /\ store' = Put(key, o.rec)
  /\ events' = IF o.err = "Ok" /\ o.ev # NoEvent THEN Append(events, o.ev)
               ELSE events
  /\ last' = [op |-> op, key |-> key, mints |-> mints, err |-> o.err,
              cpi |-> o.cpi, swap_in |-> o.swap_in, swap_min |-> o.swap_min,
              got |-> o.got, ev |-> IF o.err = "Ok" THEN o.ev ELSE NoEvent]

\* An instruction is a transaction: it commits its writes and its event, or
\* it fails and changes nothing.
Effect(op, key, mints, o) ==
  /\ o.err = "Ok" /\ o.ev # NoEvent => Len(events) < MaxEvents
  /\ store' = IF o.err = "Ok" THEN Put(key, o.rec) ELSE store
  /\ events' = IF o.err = "Ok" /\ o.ev # NoEvent THEN Append(events, o.ev)
               ELSE events
  /\ last' = [op |-> op, key |-> key, mints |-> mints, err |-> o.err,
              cpi |-> o.cpi, swap_in |-> o.swap_in, swap_min |-> o.swap_min,
              got |-> o.got, ev |-> IF o.err = "Ok" THEN o.ev ELSE NoEvent]

Commit(op, key, mints, o) ==
  Effect(op, key, mints, o) /\ UNCHANGED << race, calc >>

\* No planner or handler has been evaluated on its own.
NoCalc == [fn |-> "none"]

\* No two executions are racing.
NoRace == [phase |-> "idle", key |-> << >>, lock |-> 0, calls |-> << >>,
           pc |-> << >>, res |-> << >>, order |-> << >>]

Init ==
  /\ store = [k \in {} |-> ZeroState]
  /\ events = << >>
  /\ last = [op |-> "none", key |-> << >>, mints |-> NoMints, err |-> "Ok",
             cpi |-> "none", swap_in |-> 0, swap_min |-> 0, got |-> 0,
             ev |-> NoEvent]
  /\ race = NoRace
  /\ calc = NoCalc

(***************************************************************************)
(* Raydium CPMM, swap_base_input.rs.                                       *)
(***************************************************************************)
Mints == {"NATIVE", "M1", "M2"}
MintPairs == {<<"NATIVE", "M1">>, <<"M1", "NATIVE">>}
Sids == 1 .. MaxSid

CpmmPool == [vault_in |-> 20100, vault_out |-> 30000, fees_in |-> 100, fees_out |-> 0]
CpmmFeeRates == <<2500, 120, 40>>
CpmmTargets == {<<1000, 1400>>}
CpmmOutputTargets == {<<1000, 1300>>}
CpmmMints == <<"NATIVE", "M1">>

\* The accounts a caller passes and what they hold: the pool's vaults and
\* accrued fees, the fee configuration, whether the vaults are the pool's,
\* the transfer fee of the input mint, and the balance of the user's
\* receiving token account.
CpmmEnvs ==
  {[pool |-> CpmmPool, fees |-> CpmmFeeRates, vault_ok |-> ok,
    transfer_fee |-> 0, balance |-> BalUnit] : ok \in BOOLEAN}

\* vault_amount_without_fee: checked_sub(...).unwrap()
vault_amount_without_fee(pool) ==
  IF pool.fees_in > pool.vault_in \/ pool.fees_out > pool.vault_out
    THEN PlanFails("Panic")
    ELSE Planned(<< pool.vault_in - pool.fees_in, pool.vault_out - pool.fees_out >>)

\* The pool program's side of the CPI.  It trades on the vaults the handler
\* has just read, in the same transaction, so an exact-input swap pays the
\* curve's quote and fails below the minimum; the CPI can also fail for a
\* reason of its own.
CpmmSwapOutcomes(amount_in, min_out, pool, fees) ==
  LET total == vault_amount_without_fee(pool)
      quote == CurveSwapBaseInput(amount_in, total.val[1], total.val[2],
                                  fees[1], fees[2], fees[3])
  IN  {Unswapped}
        \cup (IF amount_in > 0 /\ total.err = "Ok" /\ quote.ok
                   /\ quote.destination_amount_swapped >= min_out
                THEN {[ok |-> TRUE, got |-> quote.destination_amount_swapped,
                       paid |-> amount_in]}
              ELSE {})

\* An exact-output swap takes the curve's quote and fails above the maximum.
CpmmBuyOutcomes(amount_out, max_in, pool, fees) ==
  LET total == vault_amount_without_fee(pool)
      quote == CurveSwapBaseOutput(amount_out, total.val[1], total.val[2],
                                   fees[1], fees[2], fees[3])
  IN  {Unswapped}
        \cup (IF amount_out > 0 /\ total.err = "Ok" /\ quote.ok
                   /\ quote.source_amount_swapped <= max_in
                THEN {[ok |-> TRUE, got |-> amount_out,
                       paid |-> quote.source_amount_swapped]}
              ELSE {})

\* cpmm_frontrun_swap_base_input
cpmm_frontrun_swap_base_input(target_amount_in, target_minimum_amount_out, sandwich_id, pool, fees, mints, vault_ok, target_transfer_fee, balance, swap) ==
  LET total == vault_amount_without_fee(pool)
      total_input_amount == total.val[1]
      total_output_amount == total.val[2]
      target_actual_amount_in == saturating_sub(target_amount_in, target_transfer_fee)
      expected == cpmm_calculate_expected_output(target_actual_amount_in,
                     total_input_amount, total_output_amount, fees)
      expected_target_output == expected.val
      target_slippage_bps ==
        (saturating_sub(expected_target_output, target_minimum_amount_out) * 10000)
           \div expected_target_output
      safe_slippage_bps == (target_slippage_bps * SafetyPct) \div 100
      optimal == cpmm_calculate_optimal_sandwich_amount(total_input_amount,
                     total_output_amount, safe_slippage_bps,
                     target_actual_amount_in, fees)
      optimal_buy_amount == optimal.val
      output_token_balance_before == balance
      minimum == cpmm_calculate_minimum_out_for_sandwich(optimal_buy_amount,
                     total_input_amount, total_output_amount, fees)
      \* the Account<TokenAccount> is not reloaded after the swap
      output_token_balance_after == balance
      frontrun_output_amount ==
        saturating_sub(output_token_balance_after, output_token_balance_before)
  IN  IF ~vault_ok THEN Rejected("InvalidVault")
      ELSE IF total.err # "Ok" THEN Rejected(total.err)
      ELSE IF expected.err # "Ok" THEN Rejected(expected.err)
      ELSE IF expected_target_output = 0 THEN Rejected("CalculationFailure")
      ELSE IF optimal.err # "Ok" THEN Rejected(optimal.err)
      ELSE IF optimal_buy_amount < DustFloor
        THEN Rejected("InsufficientSandwichAmount")
      ELSE IF minimum.err # "Ok" THEN Rejected(minimum.err)
      ELSE IF ~swap.ok THEN SwapFailed(optimal_buy_amount, minimum.val)
      ELSE Outcome("Ok", "done", optimal_buy_amount, minimum.val, swap.got,
                   SandwichState(frontrun_output_amount, optimal_buy_amount,
                                 sandwich_id, FALSE, mints[1], mints[2]),
                   NoEvent)

\* Every call of the handler the model makes: the seed Anchor reads from
\* the instruction data, and the outcome of the handler with each outcome
\* of the swap it asks for.
CpmmFrontrunCalls ==
  UNION {
    LET dry == cpmm_frontrun_swap_base_input(t[1], t[2], sid, env.pool, env.fees,
                  CpmmMints, env.vault_ok, env.transfer_fee, env.balance,
                  Unswapped)
    IN  {[seed |-> BorshU64(Args3(t[1], t[2], sid)),
          o |-> cpmm_frontrun_swap_base_input(t[1], t[2], sid, env.pool,
                   env.fees, CpmmMints, env.vault_ok, env.transfer_fee,
                   env.balance, swap)] :
           swap \in CpmmSwapOutcomes(dry.swap_in, dry.swap_min, env.pool,
                                     env.fees)} :
    t \in CpmmTargets, sid \in Sids, env \in CpmmEnvs }

\* CpmmSandwichFrontrun: the seed is the first eight bytes of the data, and
\* `init' refuses an address that already holds an account.
CpmmFrontrunSwapBaseInput ==
  \E c \in CpmmFrontrunCalls :
    IF ~c.seed.ok
      THEN Commit("cpmm_frontrun_swap_base_input", c.seed.val, NoMints,
                  Rejected("InstructionDidNotDeserialize"))
    ELSE IF c.seed.val \in DOMAIN store
      THEN Commit("cpmm_frontrun_swap_base_input", c.seed.val, NoMints,
                  Rejected("AccountAlreadyInUse"))
    ELSE Commit("cpmm_frontrun_swap_base_input", c.seed.val, NoMints, c.o)

\* The constraints of CpmmSandwichBackrun on sandwich_state, in order.
\* The mint constraints alone, without the constraint on is_complete.
cpmm_backrun_mint_constraints(rec, mints) ==
  IF rec.token_in_mint # mints[2] THEN "TokenMintMismatch"
  ELSE IF rec.token_out_mint # mints[1] THEN "TokenMintMismatch"
  ELSE "Ok"

cpmm_backrun_constraints(rec, mints) ==
  IF rec.is_complete THEN "SandwichAlreadyCompleted"
  ELSE IF rec.token_in_mint # mints[2] THEN "TokenMintMismatch"
  ELSE IF rec.token_out_mint # mints[1] THEN "TokenMintMismatch"
  ELSE "Ok"

\* cpmm_backrun_swap_base_input
cpmm_backrun_swap_base_input(rec, sandwich_id, pool, fees, vault_ok, balance, swap) ==
  LET frontrun_output == rec.frontrun_output_amount
      frontrun_input == rec.frontrun_input_amount
      current == vault_amount_without_fee(pool)
      expected == cpmm_calculate_expected_output(frontrun_output,
                     current.val[1], current.val[2], fees)
      expected_backrun_output == expected.val
      min_required_output == (frontrun_input * MinProfitFactor) \div 1000
      minimum_backrun_output ==
        Max((expected_backrun_output * BackrunMarginPct) \div 100,
            min_required_output)
      output_token_balance_before == balance
      \* not reloaded after the swap
      output_token_balance_after == balance
      actual_output ==
        saturating_sub(output_token_balance_after, output_token_balance_before)
      profit == saturating_sub(actual_output, frontrun_input)
  IN  IF ~vault_ok THEN Rejected("InvalidVault")
      ELSE IF current.err # "Ok" THEN Rejected(current.err)
      ELSE IF expected.err # "Ok" THEN Rejected(expected.err)
      ELSE IF minimum_backrun_output <= frontrun_input
        THEN Rejected("UnprofitableSandwich")
      ELSE IF ~swap.ok THEN SwapFailed(frontrun_output, minimum_backrun_output)
      ELSE Outcome("Ok", "done", frontrun_output, minimum_backrun_output,
                   swap.got, [rec EXCEPT !.is_complete = TRUE],
                   SandwichCompleteEvent(sandwich_id, profit, frontrun_input,
                                         actual_output))

\* The ids a back-run is called with: those of the front-runs, and the
\* values the front-runs' records are stored under.
BackrunIds == Sids \cup {2, 1000}

CpmmBackrunCalls ==
  {[sid |-> sid, env |-> env, mints |-> mints] :
     sid \in BackrunIds, env \in CpmmEnvs, mints \in MintPairs}

cpmm_backrun_input_attempts(c) ==
  LET seed == BorshU64(Args1(c.sid))
      rec == store[seed.val]
      presented == << c.mints[2], c.mints[1] >>
      run(swap) == cpmm_backrun_swap_base_input(rec, c.sid, c.env.pool,
                      c.env.fees, c.env.vault_ok, c.env.balance, swap)
  IN  IF ~seed.ok
        THEN {Attempt(seed.val, presented,
                      Rejected("InstructionDidNotDeserialize"))}
      ELSE IF seed.val \notin DOMAIN store
        THEN {Attempt(seed.val, presented, Rejected("AccountNotInitialized"))}
      ELSE IF cpmm_backrun_constraints(rec, c.mints) # "Ok"
        THEN {Attempt(seed.val, presented,
                      Rejected(cpmm_backrun_constraints(rec, c.mints)))}
      ELSE {Attempt(seed.val, presented, run(swap)) :
              swap \in CpmmSwapOutcomes(run(Unswapped).swap_in,
                                        run(Unswapped).swap_min,
                                        c.env.pool, c.env.fees)}

CpmmBackrunSwapBaseInput ==
  \E c \in CpmmBackrunCalls :
    \E a \in cpmm_backrun_input_attempts(c) :
      Commit("cpmm_backrun_swap_base_input", a.key, a.mints, a.o)

(***************************************************************************)
(* Raydium CPMM, swap_base_output.rs.                                      *)
(***************************************************************************)
\* The profit the search of swap_base_output.rs gives the candidate `mid':
\* the purchase of `mid', the victim's purchase on the shifted reserves, and
\* an exact-output swap for 101% of what the purchase cost.
cpmm_output_candidate_profit(mid, reserve_in, reserve_out, target_amount_out, fees) ==
  LET buy_result ==
        CurveSwapBaseOutput(mid, reserve_in, reserve_out, fees[1], fees[2], fees[3])
      new_reserve_in == reserve_in + buy_result.source_amount_swapped
      new_reserve_out == reserve_out - buy_result.destination_amount_swapped
      after == CurveSwapBaseOutput(target_amount_out, new_reserve_in,
                                   new_reserve_out, fees[1], fees[2], fees[3])
      after_target_reserve_in == new_reserve_in + after.source_amount_swapped
      after_target_reserve_out == new_reserve_out - target_amount_out
      backrun_result ==
        CurveSwapBaseOutput((buy_result.source_amount_swapped * 101) \div 100,
                            after_target_reserve_out, after_target_reserve_in,
                            fees[1], fees[2], fees[3])
      our_cost == buy_result.source_amount_swapped
      our_return == backrun_result.destination_amount_swapped
  IN  [ok |-> buy_result.ok /\ after.ok /\ backrun_result.ok,
       profit |-> saturating_sub(our_return, our_cost)]

RECURSIVE cpmm_output_search(_, _, _, _, _, _, _, _, _, _)
cpmm_output_search(rounds, low, high, best_amount, best_profit, reserve_in, reserve_out, safe_slippage_bps, target_amount_out, fees) ==
  IF rounds = 0 \/ low >= high THEN Planned(best_amount)
  ELSE
    LET mid == (low + high) \div 2
        buy_result ==
          CurveSwapBaseOutput(mid, reserve_in, reserve_out, fees[1], fees[2], fees[3])
        new_reserve_in == reserve_in + buy_result.source_amount_swapped
        new_reserve_out == reserve_out - buy_result.destination_amount_swapped
        before == CurveSwapBaseOutput(target_amount_out, reserve_in, reserve_out,
                                      fees[1], fees[2], fees[3])
        after == CurveSwapBaseOutput(target_amount_out, new_reserve_in,
                                     new_reserve_out, fees[1], fees[2], fees[3])
        target_expected_input_before == before.source_amount_swapped
        target_expected_input_after == after.source_amount_swapped
        price_impact_bps ==
          ((target_expected_input_after - target_expected_input_before) * 10000)
            \div target_expected_input_before
        after_target_reserve_in == new_reserve_in + target_expected_input_after
        after_target_reserve_out == new_reserve_out - target_amount_out
        backrun_result ==
          CurveSwapBaseOutput((buy_result.source_amount_swapped * 101) \div 100,
                              after_target_reserve_out, after_target_reserve_in,
                              fees[1], fees[2], fees[3])
        our_cost == buy_result.source_amount_swapped
        our_return == backrun_result.destination_amount_swapped
        profit == saturating_sub(our_return, our_cost)
    IN  Visited(mid,
        IF ~buy_result.ok \/ ~before.ok \/ ~after.ok
          THEN PlanFails("CalculationFailure")
        ELSE IF target_expected_input_before = 0
                  \/ target_expected_input_after < target_expected_input_before
          THEN PlanFails("Panic")
        ELSE IF price_impact_bps > safe_slippage_bps
          THEN cpmm_output_search(rounds - 1, low, mid - 1, best_amount,
                                  best_profit, reserve_in, reserve_out,
                                  safe_slippage_bps, target_amount_out, fees)
        ELSE IF ~backrun_result.ok THEN PlanFails("CalculationFailure")
        ELSE cpmm_output_search(rounds - 1,
                                IF profit > 0 THEN mid + 1 ELSE low,
                                IF profit > 0 THEN high ELSE mid - 1,
                                IF profit > best_profit THEN mid ELSE best_amount,
                                IF profit > best_profit THEN profit ELSE best_profit,
                                reserve_in, reserve_out, safe_slippage_bps,
                                target_amount_out, fees))

\* calculate_optimal_sandwich_output_amount
calculate_optimal_sandwich_output_amount(reserve_in, reserve_out, safe_slippage_bps, target_amount_out, fees) ==
  LET r == cpmm_output_search(SearchRounds, 1, reserve_out \div 10,
                              reserve_out \div 100, 0, reserve_in, reserve_out,
                              safe_slippage_bps, target_amount_out, fees)
  IN  IF r.err = "Ok" /\ r.val < DustFloor
        THEN PlanFails("InsufficientSandwichAmount")
        ELSE r

\* calculate_max_input_for_sandwich
calculate_max_input_for_sandwich(amount_out, rin, rout, fees) ==
  LET r == CurveSwapBaseOutput(amount_out, rin, rout, fees[1], fees[2], fees[3])
  IN  IF ~r.ok THEN PlanFails("CalculationFailure")
      ELSE Planned((r.source_amount_swapped * 105) \div 100)

\* cpmm_frontrun_swap_base_output
cpmm_frontrun_swap_base_output(target_max_amount_in, target_amount_out, sandwich_id, pool, fees, mints, vault_ok, transfer_fee, balance, swap) ==
  LET total == vault_amount_without_fee(pool)
      total_input_amount == total.val[1]
      total_output_amount == total.val[2]
      target_actual_amount_out == target_amount_out + transfer_fee
      target_swap_result ==
        CurveSwapBaseOutput(target_actual_amount_out, total_input_amount,
                            total_output_amount, fees[1], fees[2], fees[3])
      target_actual_amount_in ==
        target_swap_result.source_amount_swapped + transfer_fee
      target_slippage_bps ==
        (saturating_sub(target_max_amount_in, target_actual_amount_in) * 10000)
           \div target_actual_amount_in
      safe_slippage_bps == (target_slippage_bps * SafetyPct) \div 100
      optimal == calculate_optimal_sandwich_output_amount(total_input_amount,
                    total_output_amount, safe_slippage_bps,
                    target_actual_amount_out, fees)
      optimal_output_amount == optimal.val
      output_token_balance_before == balance
      max_in == calculate_max_input_for_sandwich(optimal_output_amount,
                    total_input_amount, total_output_amount, fees)
      max_in_for_sandwich == max_in.val
      \* not reloaded after the swap
      output_token_balance_after == balance
      frontrun_output_amount ==
        saturating_sub(output_token_balance_after, output_token_balance_before)
  IN  IF ~vault_ok THEN Rejected("InvalidVault")
      ELSE IF total.err # "Ok" THEN Rejected(total.err)
      ELSE IF ~target_swap_result.ok THEN Rejected("CalculationFailure")
      ELSE IF target_actual_amount_in = 0 THEN Rejected("CalculationFailure")
      ELSE IF optimal.err # "Ok" THEN Rejected(optimal.err)
      ELSE IF optimal_output_amount < DustFloor
        THEN Rejected("InsufficientSandwichAmount")
      ELSE IF max_in.err # "Ok" THEN Rejected(max_in.err)
      ELSE IF ~swap.ok THEN SwapFailed(max_in_for_sandwich, optimal_output_amount)
      ELSE Outcome("Ok", "done", max_in_for_sandwich, optimal_output_amount,
                   swap.got,
                   SandwichState(frontrun_output_amount, max_in_for_sandwich,
                                 sandwich_id, FALSE, mints[1], mints[2]),
                   NoEvent)

CpmmFrontrunOutputCalls ==
  UNION {
    LET dry == cpmm_frontrun_swap_base_output(t[1], t[2], sid, env.pool, env.fees,
                  CpmmMints, env.vault_ok, env.transfer_fee, env.balance,
                  Unswapped)
    IN  {[seed |-> BorshU64(Args3(t[1], t[2], sid)),
          o |-> cpmm_frontrun_swap_base_output(t[1], t[2], sid, env.pool,
                   env.fees, CpmmMints, env.vault_ok, env.transfer_fee,
                   env.balance, swap)] :
           swap \in CpmmBuyOutcomes(dry.swap_min, dry.swap_in, env.pool,
                                    env.fees)} :
    t \in CpmmOutputTargets, sid \in Sids, env \in CpmmEnvs }

\* CpmmSandwichFrontrunOutput: `init', seeded by the first eight bytes.
CpmmFrontrunSwapBaseOutput ==
  \E c \in CpmmFrontrunOutputCalls :
    IF ~c.seed.ok
      THEN Commit("cpmm_frontrun_swap_base_output", c.seed.val, NoMints,
                  Rejected("InstructionDidNotDeserialize"))
    ELSE IF c.seed.val \in DOMAIN store
      THEN Commit("cpmm_frontrun_swap_base_output", c.seed.val, NoMints,
                  Rejected("AccountAlreadyInUse"))
    ELSE Commit("cpmm_frontrun_swap_base_output", c.seed.val, NoMints, c.o)

\* cpmm_backrun_swap_base_output
cpmm_backrun_swap_base_output(rec, sandwich_id, pool, vault_ok, balance, swap) ==
  LET frontrun_output == rec.frontrun_output_amount
      frontrun_input == rec.frontrun_input_amount
      current == vault_amount_without_fee(pool)
      min_amount_out == (frontrun_input * MinProfitFactor) \div 1000
      output_token_balance_before == balance
      max_input_for_backrun == (frontrun_output * 105) \div 100
      \* not reloaded after the swap
      output_token_balance_after == balance
      actual_output ==
        saturating_sub(output_token_balance_after, output_token_balance_before)
      profit == saturating_sub(actual_output, frontrun_input)
  IN  IF ~vault_ok THEN Rejected("InvalidVault")
      ELSE IF current.err # "Ok" THEN Rejected(current.err)
      ELSE IF ~swap.ok THEN SwapFailed(max_input_for_backrun, min_amount_out)
      ELSE Outcome("Ok", "done", max_input_for_backrun, min_amount_out,
                   swap.got, [rec EXCEPT !.is_complete = TRUE],
                   SandwichCompleteEvent(sandwich_id, profit, frontrun_input,
                                         actual_output))

\* CpmmSandwichBackrunOutput carries the constraints of CpmmSandwichBackrun.
cpmm_backrun_output_attempts(c) ==
  LET seed == BorshU64(Args1(c.sid))
      rec == store[seed.val]
      presented == << c.mints[2], c.mints[1] >>
      run(swap) == cpmm_backrun_swap_base_output(rec, c.sid, c.env.pool,
                      c.env.vault_ok, c.env.balance, swap)
  IN  IF ~seed.ok
        THEN {Attempt(seed.val, presented,
                      Rejected("InstructionDidNotDeserialize"))}
      ELSE IF seed.val \notin DOMAIN store
        THEN {Attempt(seed.val, presented, Rejected("AccountNotInitialized"))}
      ELSE IF cpmm_backrun_constraints(rec, c.mints) # "Ok"
        THEN {Attempt(seed.val, presented,
                      Rejected(cpmm_backrun_constraints(rec, c.mints)))}
      ELSE {Attempt(seed.val, presented, run(swap)) :
              swap \in CpmmBuyOutcomes(run(Unswapped).swap_min,
                                       run(Unswapped).swap_in,
                                       c.env.pool, c.env.fees)}

CpmmBackrunSwapBaseOutput ==
  \E c \in CpmmBackrunCalls :
    \E a \in cpmm_backrun_output_attempts(c) :
      Commit("cpmm_backrun_swap_base_output", a.key, a.mints, a.o)

(***************************************************************************)
(* PumpSwap: pump_amm.rs, sell.rs, backrun.rs.                             *)
(***************************************************************************)
PumpVaultFeeRate == 501

\* vault_amount_without_fee of sell.rs
pumpswap_vault_amount_without_fee(vault_0, vault_1) ==
  << vault_0 - FeesProtocolFee(vault_0, PumpVaultFeeRate),
     vault_1 - FeesProtocolFee(vault_1, PumpVaultFeeRate) >>

\* calculate_expected_output of sell.rs quotes with swap_base_output
pumpswap_calculate_expected_output(amount_in, rin, rout, fees) ==
  LET r == CurveSwapBaseOutput(amount_in, rin, rout, fees[1], fees[2], fees[3])
  IN  IF r.ok THEN Planned(r.destination_amount_swapped)
      ELSE PlanFails("CalculationFailure")

\* calculate_optimal_sandwich_amount of sell.rs
pumpswap_calculate_optimal_sandwich_amount(reserve_in, reserve_out, safe_slippage_bps, target_actual_amount_in, fees) ==
  cpmm_search(SearchRounds, 1, reserve_in \div 10, reserve_in \div 100, 0,
              reserve_in, reserve_out, safe_slippage_bps,
              target_actual_amount_in, fees)

\* calculate_minimum_out_for_sandwich of sell.rs
pumpswap_calculate_minimum_out_for_sandwich(amount_in, rin, rout, fees) ==
  LET e == pumpswap_calculate_expected_output(amount_in, rin, rout, fees)
  IN  IF e.err # "Ok" THEN e ELSE Planned((e.val * MinOutPct) \div 100)

\* pumpswap_frontrun_sell.  `fee_bps' are the coin creator, protocol and lp
\* fees of the global config.
pumpswap_frontrun_sell(base_amount_in, min_quote_amount_out, sandwich_id, pool_base, pool_quote, fee_bps, vault_ok, mints, user_quote, swap) ==
  LET total == pumpswap_vault_amount_without_fee(pool_base, pool_quote)
      total_input_amount == total[1]
      total_output_amount == total[2]
      fees == << fee_bps[1] * 100, fee_bps[2] * 100, fee_bps[3] * 100 >>
      target_actual_amount_in == base_amount_in
      expected == pumpswap_calculate_expected_output(target_actual_amount_in,
                     total_input_amount, total_output_amount, fees)
      expected_target_output == expected.val
      target_slippage_bps ==
        (saturating_sub(expected_target_output, min_quote_amount_out) * 10000)
           \div expected_target_output
      safe_slippage_bps == (target_slippage_bps * SafetyPct) \div 100
      optimal == pumpswap_calculate_optimal_sandwich_amount(total_input_amount,
                     total_output_amount, safe_slippage_bps,
                     target_actual_amount_in, fees)
      optimal_buy_amount == optimal.val
      \* the pool's quote vault before, the user's quote account after
      output_token_balance_before == pool_quote
      minimum == pumpswap_calculate_minimum_out_for_sandwich(optimal_buy_amount,
                     total_input_amount, total_output_amount, fees)
      \* not reloaded after the swap
      output_token_balance_after == user_quote
      frontrun_output_amount ==
        saturating_sub(output_token_balance_after, output_token_balance_before)
  IN  IF ~vault_ok THEN Rejected("InvalidVault")
      ELSE IF expected.err # "Ok" THEN Rejected(expected.err)
      ELSE IF expected_target_output = 0 THEN Rejected("CalculationFailure")
      ELSE IF optimal.err # "Ok" THEN Rejected(optimal.err)
      ELSE IF optimal_buy_amount < DustFloor
        THEN Rejected("InsufficientSandwichAmount")
      ELSE IF minimum.err # "Ok" THEN Rejected(minimum.err)
      ELSE IF ~swap.ok THEN SwapFailed(optimal_buy_amount, minimum.val)
      ELSE Outcome("Ok", "done", optimal_buy_amount, minimum.val, swap.got,
                   SandwichState(frontrun_output_amount, optimal_buy_amount,
                                 sandwich_id, FALSE, mints[1], mints[2]),
                   NoEvent)

PumpMints == <<"M1", "NATIVE">>
PumpTargets == {<<1000, 900>>}
PumpEnvs ==
  {[pool_base |-> 20000, pool_quote |-> 30000, fee_bps |-> <<5, 5, 20>>,
    vault_ok |-> ok, user_quote |-> BalUnit] : ok \in BOOLEAN}
    \cup {[pool_base |-> 20000, pool_quote |-> 30000, fee_bps |-> <<5, 5, 20>>,
           vault_ok |-> TRUE, user_quote |-> 30000 + 50 * BalUnit]}

PumpFrontrunSellCalls ==
  UNION {
    LET dry == pumpswap_frontrun_sell(t[1], t[2], sid, env.pool_base,
                  env.pool_quote, env.fee_bps, env.vault_ok, PumpMints,
                  env.user_quote, Unswapped)
    IN  {[seed |-> BorshU64(Args3(t[1], t[2], sid)),
          o |-> pumpswap_frontrun_sell(t[1], t[2], sid, env.pool_base,
                   env.pool_quote, env.fee_bps, env.vault_ok, PumpMints,
                   env.user_quote, swap)] :
           swap \in SwapOutcomes(dry.swap_in, dry.swap_min)} :
    t \in PumpTargets, sid \in Sids, env \in PumpEnvs }

\* PumpSwapContext: the seed is the first eight bytes of the data, and
\* `init_if_needed' takes the account as it is when it exists.
PumpFrontrunSell ==
  \E c \in PumpFrontrunSellCalls :
    IF ~c.seed.ok
      THEN Commit("pumpswap_frontrun_sell", c.seed.val, NoMints,
                  Rejected("InstructionDidNotDeserialize"))
    ELSE Commit("pumpswap_frontrun_sell", c.seed.val, NoMints, c.o)

\* pumpswap_backrun_buy: sells what the front-run recorded as its output.
pumpswap_backrun_buy(rec, mints, user_quote, swap) ==
  LET base_amount_in == rec.frontrun_output_amount
      quote_balance_before == user_quote
      min_quote_amount_out ==
        rec.frontrun_input_amount - (rec.frontrun_input_amount * 90) \div 100
      \* not reloaded after the swap
      quote_balance_after == user_quote
      backrun_output_amount ==
        saturating_sub(quote_balance_after, quote_balance_before)
      profit == saturating_sub(backrun_output_amount, rec.frontrun_input_amount)
  IN  IF rec.is_complete THEN Rejected("SandwichAlreadyCompleted")
      ELSE IF rec.token_in_mint # mints[1] \/ rec.token_out_mint # mints[2]
        THEN Rejected("TokenMintMismatch")
      ELSE IF base_amount_in = 0 THEN Rejected("EmptySupply")
      ELSE IF ~swap.ok THEN SwapFailed(base_amount_in, min_quote_amount_out)
      ELSE Outcome("Ok", "done", base_amount_in, min_quote_amount_out,
                   swap.got, [rec EXCEPT !.is_complete = TRUE],
                   SandwichCompleteEvent(rec.sandwich_id, profit,
                                         rec.frontrun_input_amount,
                                         backrun_output_amount))

\* pumpswap_backrun_sell: buys back what the front-run recorded as its input.
pumpswap_backrun_sell(rec, mints, user_base, swap) ==
  LET base_amount_out == rec.frontrun_output_amount
      base_balance_before == user_base
      \* not reloaded after the swap
      base_balance_after == user_base
      backrun_output_amount ==
        saturating_sub(base_balance_after, base_balance_before)
      profit == IF backrun_output_amount <= rec.frontrun_input_amount
                  THEN saturating_sub(rec.frontrun_input_amount,
                                      backrun_output_amount)
                  ELSE 0
  IN  IF rec.is_complete THEN Rejected("SandwichAlreadyCompleted")
      ELSE IF rec.token_out_mint # mints[1] \/ rec.token_in_mint # mints[2]
        THEN Rejected("TokenMintMismatch")
      ELSE IF base_amount_out = 0 THEN Rejected("EmptySupply")
      ELSE IF ~swap.ok
        THEN SwapFailed(rec.frontrun_output_amount, rec.frontrun_input_amount)
      ELSE Outcome("Ok", "done", rec.frontrun_output_amount,
                   rec.frontrun_input_amount, swap.got,
                   [rec EXCEPT !.is_complete = TRUE],
                   SandwichCompleteEvent(rec.sandwich_id, profit,
                                         rec.frontrun_input_amount,
                                         backrun_output_amount))

\* The back-runs of PumpSwap take no argument: the seed is read from
\* whatever bytes follow the discriminator, none when the client sends the
\* declared arguments only.
PumpBackrunData == {<< >>} \cup {Args1(v) : v \in BackrunIds}

PumpBackrunCalls ==
  {[data |-> data, mints |-> mints] :
     data \in PumpBackrunData, mints \in MintPairs}

\* `init_if_needed': a key without a record gives the handler a zeroed one.
pumpswap_backrun_buy_attempts(c) ==
  LET seed == BorshU64(c.data)
      rec == IF seed.val \in DOMAIN store THEN store[seed.val] ELSE ZeroState
      run(swap) == pumpswap_backrun_buy(rec, c.mints, BalUnit, swap)
  IN  IF ~seed.ok
        THEN {Attempt(seed.val, c.mints,
                      Rejected("InstructionDidNotDeserialize"))}
      ELSE IF run(Unswapped).cpi = "none"
        THEN {Attempt(seed.val, c.mints, run(Unswapped))}
      ELSE {Attempt(seed.val, c.mints, run(swap)) :
              swap \in SwapOutcomes(run(Unswapped).swap_in,
                                    run(Unswapped).swap_min)}

PumpBackrunBuy ==
  \E c \in PumpBackrunCalls :
    \E a \in pumpswap_backrun_buy_attempts(c) :
      Commit("pumpswap_backrun_buy", a.key, a.mints, a.o)

pumpswap_backrun_sell_attempts(c) ==
  LET seed == BorshU64(c.data)
      rec == IF seed.val \in DOMAIN store THEN store[seed.val] ELSE ZeroState
      presented == << c.mints[2], c.mints[1] >>
      run(swap) == pumpswap_backrun_sell(rec, c.mints, BalUnit, swap)
  IN  IF ~seed.ok
        THEN {Attempt(seed.val, presented,
                      Rejected("InstructionDidNotDeserialize"))}
      ELSE IF run(Unswapped).cpi = "none"
        THEN {Attempt(seed.val, presented, run(Unswapped))}
      ELSE {Attempt(seed.val, presented, run(swap)) :
              swap \in BuyOutcomes(run(Unswapped).swap_min,
                                   run(Unswapped).swap_in)}

PumpBackrunSell ==
  \E c \in PumpBackrunCalls :
    \E a \in pumpswap_backrun_sell_attempts(c) :
      Commit("pumpswap_backrun_sell", a.key, a.mints, a.o)

(***************************************************************************)
(* PumpFun: frontrun_buy.rs, backrun_buy.rs.                               *)
(***************************************************************************)
PUMPFUN_FEE_PPM == 10000
MIN_PROFIT_PPM == 5000

\* compute_front_run_with_fee: (my_token_amount_out, my_max_sol_in)
compute_front_run_with_fee(v_tokens, v_sol, target_token_amount_out, target_max_sol_amount_in, fee_ppm, min_profit_ppm) ==
  LET x0 == ToFloat(v_tokens)
      y0 == ToFloat(v_sol)
      t == ToFloat(target_token_amount_out)
      k == ToFloat(v_tokens * v_sol)
      mgt == LessFee(ToFloat(target_max_sol_amount_in * target_token_amount_out),
                     fee_ppm)
      sqrt == SqrtOfProduct(mgt, mgt + 4 * k)
      y_max == FDiv(sqrt - mgt, 2 * t)
      delta_sol == MulDiv(y_max - y0, PartsPerMillion, PartsPerMillion - fee_ppm)
      x1 == FDiv(k, y_max)
      token_out_me == x0 - x1
      x2 == x1 - t
      y2 == FDiv(k, x2)
      x3 == x2 + LessFee(token_out_me, fee_ppm)
      y3 == FDiv(k, x3)
      revenue_sol == y2 - y3
      profit == revenue_sol - delta_sol
  IN  IF t = 0 \/ y_max <= y0 THEN None
      ELSE IF delta_sol <= 0 THEN None
      ELSE IF token_out_me <= 0 THEN None
      ELSE IF x2 <= 0 THEN None
      ELSE IF BelowFraction(profit, delta_sol, min_profit_ppm) THEN None
      ELSE Some(Floor(token_out_me), Floor(delta_sol),
                Fraction(profit, delta_sol))

\* pumpfun_frontrun_buy without its test of the victim's cost on the
\* untouched curve.
pumpfun_frontrun_buy_untested(target_token_amount_out, target_max_sol_amount_in, sandwich_id, v_tokens, v_sol, mint, lamports, old_token_in_mint, swap) ==
  LET plan == compute_front_run_with_fee(v_tokens, v_sol,
                 target_token_amount_out, target_max_sol_amount_in,
                 PUMPFUN_FEE_PPM, MIN_PROFIT_PPM)
      lamports_after == lamports - swap.paid
  IN  IF ~plan.some THEN Rejected("UnprofitableSandwich")
      ELSE IF ~swap.ok THEN SwapFailed(plan.b, plan.a)
      ELSE Outcome("Ok", "done", plan.b, plan.a, swap.got,
                   SandwichState(plan.a, saturating_sub(lamports_after, lamports),
                                 sandwich_id, FALSE, old_token_in_mint, mint),
                   NoEvent)

\* pumpfun_frontrun_buy.  The user's lamports are read from the account
\* itself before and after the swap.
pumpfun_frontrun_buy(target_token_amount_out, target_max_sol_amount_in, sandwich_id, v_tokens, v_sol, mint, lamports, old_token_in_mint, swap) ==
  LET plan == compute_front_run_with_fee(v_tokens, v_sol,
                 target_token_amount_out, target_max_sol_amount_in,
                 PUMPFUN_FEE_PPM, MIN_PROFIT_PPM)
      frontrun_token_out == plan.a
      frontrun_max_sol_in == plan.b
      lamports_before == lamports
      lamports_after == lamports - swap.paid
  IN  \* cost_now < target_max_sol_amount_in, cost_now = T * v_sol / v_tokens
      IF v_tokens = 0
           \/ target_token_amount_out * v_sol >= target_max_sol_amount_in * v_tokens
        THEN Rejected("ExceededSlippage")
      ELSE IF ~plan.some THEN Rejected("UnprofitableSandwich")
      ELSE IF ~swap.ok THEN SwapFailed(frontrun_max_sol_in, frontrun_token_out)
      ELSE Outcome("Ok", "done", frontrun_max_sol_in, frontrun_token_out,
                   swap.got,
                   \* token_in_mint is not assigned: it keeps what it held
                   SandwichState(frontrun_token_out,
                                 saturating_sub(lamports_after, lamports_before),
                                 sandwich_id, FALSE, old_token_in_mint, mint),
                   NoEvent)

PumpFunTargets == {<<2, 30>>, <<2, 20>>, <<1000, 11000>>}
PumpFunCurve == [v_tokens |-> 100, v_sol |-> 1000]
PumpFunLamports == 100 * BalUnit

AllMints == Mints \cup {"ZERO"}

\* PumpFunFrontrunBuyContext declares the seed a String: Anchor reads a
\* length and that many bytes from the start of the data, before the
\* handler runs.
PumpFunFrontrunCalls ==
  UNION {
    LET seed == BorshString(Args3(t[1], t[2], sid))
        run(swap) == pumpfun_frontrun_buy(t[1], t[2], sid,
                        PumpFunCurve.v_tokens, PumpFunCurve.v_sol, "M1",
                        PumpFunLamports, tin, swap)
        dry == run(Unswapped)
    IN  IF ~seed.ok
          THEN {[seed |-> seed, tin |-> tin,
                 o |-> Rejected("InstructionDidNotDeserialize")]}
          ELSE {[seed |-> seed, tin |-> tin, o |-> run(swap)] :
                  swap \in BuyOutcomes(dry.swap_min, dry.swap_in)} :
    t \in PumpFunTargets, sid \in Sids, tin \in AllMints }

\* `init_if_needed' takes the account as it is when it exists.
PumpFunFrontrunBuy ==
  \E c \in PumpFunFrontrunCalls :
    LET old == IF c.seed.val \in DOMAIN store THEN store[c.seed.val]
               ELSE ZeroState
    IN  /\ c.tin = old.token_in_mint
        /\ Commit("pumpfun_frontrun_buy", c.seed.val, NoMints, c.o)

\* The constraints of PumpFunBackrunBuyContext on sandwich_state.
pumpfun_backrun_constraints(rec, mint) ==
  IF rec.is_complete THEN "SandwichAlreadyCompleted"
  ELSE IF rec.token_in_mint # mint THEN "TokenMintMismatch"
  ELSE "Ok"

\* pumpfun_backrun_buy: sells the recorded output for any price.
pumpfun_backrun_buy(rec, sandwich_id, lamports, swap) ==
  LET output_token_balance_before == lamports
      output_token_balance_after == lamports + swap.got
      actual_output ==
        saturating_sub(output_token_balance_after, output_token_balance_before)
      profit == saturating_sub(actual_output, rec.frontrun_input_amount)
  IN  IF ~swap.ok THEN SwapFailed(rec.frontrun_output_amount, 0)
      ELSE Outcome("Ok", "done", rec.frontrun_output_amount, 0, swap.got,
                   [rec EXCEPT !.is_complete = TRUE],
                   SandwichCompleteEvent(sandwich_id, profit,
                                         rec.frontrun_input_amount,
                                         actual_output))

PumpFunBackrunCalls ==
  {[sid |-> sid, mint |-> mint] : sid \in BackrunIds, mint \in {"M1", "NATIVE"}}

pumpfun_backrun_attempts(c) ==
  LET seed == BorshString(Args1(c.sid))
      rec == store[seed.val]
      presented == << "ANY", c.mint >>
  IN  IF ~seed.ok
        THEN {Attempt(seed.val, presented,
                      Rejected("InstructionDidNotDeserialize"))}
      ELSE IF seed.val \notin DOMAIN store
        THEN {Attempt(seed.val, presented, Rejected("AccountNotInitialized"))}
      ELSE IF pumpfun_backrun_constraints(rec, c.mint) # "Ok"
        THEN {Attempt(seed.val, presented,
                      Rejected(pumpfun_backrun_constraints(rec, c.mint)))}
      ELSE {Attempt(seed.val, presented,
                    pumpfun_backrun_buy(rec, c.sid, PumpFunLamports, swap)) :
              swap \in SwapOutcomes(rec.frontrun_output_amount, 0)}

PumpFunBackrunBuy ==
  \E c \in PumpFunBackrunCalls :
    \E a \in pumpfun_backrun_attempts(c) :
      Commit("pumpfun_backrun_buy", a.key, a.mints, a.o)

(***************************************************************************)
(* Raydium AMM v4: amm_frontrun_swap_base_in, amm_backrun_swap_base_in     *)
(***************************************************************************)
AMM_MIN_PROFIT_PPM == 5000
CushionPerMille == 998
TradeFeeSharePct == 16

\* The quadratic of the source is a = M, b = M (dt + 2 x0),
\* c = M (dt x0 + x0^2) - g dt x0 y0 with dt = dt_eff, so that
\* disc = b^2 - 4 a c = (M dt) (M dt + 4 g x0 y0).
compute_front_run_base_in_with_fee(x_base_reserve, y_quote_reserve, target_amount_in, target_min_amount_out, fee_ppm, min_profit_ppm) ==
  LET x0 == ToFloat(x_base_reserve)
      y0 == ToFloat(y_quote_reserve)
      k == ToFloat(x_base_reserve * y_quote_reserve)
      dt_eff == LessFee(ToFloat(target_amount_in), fee_ppm)
      m == target_min_amount_out
      mdt == m * dt_eff
      b == m * (dt_eff + 2 * x0)
      disc_root == SqrtOfProduct(mdt, mdt + 4 * LessFee(k, fee_ppm))
      d_max == (disc_root - b) \div (2 * m)
      d_gross == MulDiv(d_max, PartsPerMillion, PartsPerMillion - fee_ppm)
      my_amount_in == Floor(d_gross)
      x1 == x0 + d_max
      y1 == FDiv(k, x1)
      q_out == y0 - y1
      x2 == x1 + dt_eff
      y2 == FDiv(k, x2)
      y3 == y2 + LessFee(q_out, fee_ppm)
      x3 == FDiv(k, y3)
      base_back == x2 - x3
      profit == base_back - d_gross
      my_min_amount_out == Floor(MulDiv(q_out, CushionPerMille, 1000))
  IN  IF m = 0 \/ mdt = 0 THEN None
      ELSE IF disc_root <= b THEN None
      ELSE IF my_amount_in = 0 THEN None
      ELSE IF q_out <= 0 THEN None
      ELSE IF BelowFraction(profit, d_gross, min_profit_ppm) THEN None
      ELSE Some(my_amount_in, my_min_amount_out, Fraction(profit, d_gross))

\* fee_fraction = swap_fee + trade_fee * 0.16, in parts per million
amm_fee_fraction(amm) ==
  MulDiv(amm.swap_fee_numerator, PartsPerMillion, amm.swap_fee_denominator)
    + MulDiv(MulDiv(amm.trade_fee_numerator, PartsPerMillion,
                    amm.trade_fee_denominator), TradeFeeSharePct, 100)

\* amm_frontrun_swap_base_in.  Both user token accounts are reloaded after
\* the swap; the record takes the whole balance of the target account and
\* after - before of the source account, which the swap debits.
amm_frontrun_swap_base_in(target_amount_in, target_minimum_amount_out, sandwich_id, pool_coin, pool_quote, amm, base_mint, user_source, user_target, swap) ==
  LET plan == compute_front_run_base_in_with_fee(pool_coin, pool_quote,
                 target_amount_in, target_minimum_amount_out,
                 amm_fee_fraction(amm), AMM_MIN_PROFIT_PPM)
      frontrun_amount_in == plan.a
      frontrun_min_out == plan.b
      lamports_before == user_source
      lamports_after == user_source - swap.paid
  IN  IF ~plan.some THEN Rejected("UnprofitableSandwich")
      ELSE IF ~swap.ok THEN SwapFailed(frontrun_amount_in, frontrun_min_out)
      ELSE Outcome("Ok", "done", frontrun_amount_in, frontrun_min_out,
                   swap.got,
                   SandwichState(user_target + swap.got,
                                 saturating_sub(lamports_after, lamports_before),
                                 sandwich_id, FALSE, "NATIVE", base_mint),
                   NoEvent)

AmmTargets == {<<2, 15>>, <<2, 20>>}
AmmPool == [pool_coin |-> 100, pool_quote |-> 1000]
AmmState == [trade_fee_numerator |-> 25, trade_fee_denominator |-> 10000,
             swap_fee_numerator |-> 25, swap_fee_denominator |-> 10000,
             base_mint |-> "M1"]

AmmUserTargets == {BalUnit}

\* AmmFrontrunSwapBaseIn declares the seed a String and creates the record
\* with `init_if_needed'; the handler assigns every field of it.
AmmFrontrunCalls ==
  UNION {
    LET seed == BorshString(Args3(t[1], t[2], sid))
        run(swap) == amm_frontrun_swap_base_in(t[1], t[2], sid,
                        AmmPool.pool_coin, AmmPool.pool_quote, AmmState,
                        AmmState.base_mint, BalUnit, user_target, swap)
        dry == run(Unswapped)
    IN  IF ~seed.ok
          THEN {[seed |-> seed,
                 o |-> Rejected("InstructionDidNotDeserialize")]}
          ELSE {[seed |-> seed, o |-> run(swap)] :
                  swap \in SwapOutcomes(dry.swap_in, dry.swap_min)} :
    t \in AmmTargets, sid \in Sids, user_target \in AmmUserTargets }

AmmFrontrunSwapBaseIn ==
  \E c \in AmmFrontrunCalls :
    IF ~c.seed.ok
      THEN Commit("amm_frontrun_swap_base_in", c.seed.val, NoMints, c.o)
    ELSE Commit("amm_frontrun_swap_base_in", c.seed.val, NoMints, c.o)

\* A record account taken without any constraint.
amm_backrun_no_constraint(rec) == "Ok"

\* The only constraint of AmmBackrunSwapBaseIn on the record.
amm_backrun_constraints(rec) ==
  IF rec.is_complete THEN "SandwichAlreadyCompleted" ELSE "Ok"

\* amm_backrun_swap_base_in: swaps the recorded output for any price.  The
\* balance before is that of the target account, the balance after that of
\* the reloaded source account, which the swap debits.
amm_backrun_swap_base_in(rec, sandwich_id, user_source, user_target, swap) ==
  LET output_token_balance_before == user_target
      output_token_balance_after == user_source - swap.paid
      actual_output ==
        saturating_sub(output_token_balance_after, output_token_balance_before)
      profit == saturating_sub(actual_output, rec.frontrun_input_amount)
  IN  IF ~swap.ok THEN SwapFailed(rec.frontrun_output_amount, 0)
      ELSE Outcome("Ok", "done", rec.frontrun_output_amount, 0, swap.got,
                   [rec EXCEPT !.is_complete = TRUE],
                   SandwichCompleteEvent(sandwich_id, profit,
                                         rec.frontrun_input_amount,
                                         actual_output))

AmmBackrunSource == 5 * BalUnit

\* The base mint presented is that of the pool presented.
AmmBackrunCalls ==
  {[sid |-> sid, base_mint |-> base_mint, user_target |-> user_target] :
     sid \in BackrunIds, base_mint \in {"M1", "M2"},
     user_target \in AmmUserTargets}

\* The swap cannot take more than the source account holds.
amm_backrun_attempts(c) ==
  LET seed == BorshString(Args1(c.sid))
      rec == store[seed.val]
      presented == << "ANY", c.base_mint >>
  IN  IF ~seed.ok
        THEN {Attempt(seed.val, presented,
                      Rejected("InstructionDidNotDeserialize"))}
      ELSE IF seed.val \notin DOMAIN store
        THEN {Attempt(seed.val, presented, Rejected("AccountNotInitialized"))}
      ELSE IF amm_backrun_constraints(rec) # "Ok"
        THEN {Attempt(seed.val, presented,
                      Rejected(amm_backrun_constraints(rec)))}
      ELSE {Attempt(seed.val, presented,
                    amm_backrun_swap_base_in(rec, c.sid, AmmBackrunSource,
                                             c.user_target, swap)) :
              swap \in {w \in SwapOutcomes(rec.frontrun_output_amount, 0) :
                          w.paid <= AmmBackrunSource}}

AmmBackrunSwapBaseIn ==
  \E c \in AmmBackrunCalls :
    \E a \in amm_backrun_attempts(c) :
      Commit("amm_backrun_swap_base_in", a.key, a.mints, a.o)

(***************************************************************************)
(* Raydium CLMM, clmm/swap.rs: the quoting arithmetic.  The widths are     *)
(* scaled: a u64 has 14 bits and a u128 has 28, so that Q64 = 2^14 and     *)
(* the bounds of the sqrt price keep their places, Q64 / 2^7 and           *)
(* Q64 * 2^7 where the program has 2^32 and 2^96.  What is checked, what   *)
(* wraps and what aborts is as in the source.  An unchecked operation      *)
(* that overflows aborts in a build with overflow checks and wraps in one  *)
(* without: `checks' says which build runs.                                *)
(***************************************************************************)
Q64 == 2^14
U64_MAX == Q64 - 1
U128_MAX == (Q64 * Q64) - 1
MIN_SQRT_PRICE_X64 == Q64 \div 2^7
MAX_SQRT_PRICE_X64 == Q64 * 2^7

\* a * b overflows a u128
MulOverflows(a, b) == a # 0 /\ b # 0 /\ a > U128_MAX \div b

\* a * b modulo 2^128
WrappingMul(a, b) == MulDivRem(Max(a, b), Min(a, b), U128_MAX + 1)[2]

\* The unchecked a * b of u128
UncheckedMul(checks, a, b) ==
  IF ~MulOverflows(a, b) THEN Planned(a * b)
  ELSE IF checks THEN PlanFails("Panic")
  ELSE Planned(WrappingMul(a, b))

\* The unchecked a / b of u128: a division by zero aborts in every build.
UncheckedDiv(a, b) == IF b = 0 THEN PlanFails("Panic") ELSE Planned(a \div b)

\* v as u64
AsU64(v) == v % Q64

\* amount * (1_000_000 - fee_rate) / 1_000_000; a u64 by less than 2^20
\* never overflows a u128
clmm_adjusted_amount(amount, fee_rate) ==
  MulDiv(amount, PartsPerMillion - fee_rate, PartsPerMillion)

\* mul_div
clmm_mul_div(a, b, denominator) ==
  IF denominator = 0 THEN PlanFails("CalculationFailure")
  ELSE IF MulOverflows(a, b) THEN PlanFails("CalculationFailure")
  ELSE Planned((a * b) \div denominator)

\* mul_div_ceil: the denominator is not tested
clmm_mul_div_ceil(a, b, denominator) ==
  IF MulOverflows(a, b) THEN PlanFails("CalculationFailure")
  ELSE IF a * b = 0 THEN Planned(0)
  ELSE IF denominator = 0 THEN PlanFails("Panic")
  ELSE Planned((((a * b) - 1) \div denominator) + 1)

\* Neg for u128: 0u128.saturating_sub(self)
clmm_neg(v) == saturating_sub(0, v)

\* The `?' of the source: an error ends the computation, a value goes on.
AndThen(r, Go(_)) == IF r.err # "Ok" THEN r ELSE Go(r.val)

\* sqrt_price_after_amount_in
sqrt_price_after_amount_in(sqrt_price_x64, liquidity, amount_in, zero_for_one) ==
  IF zero_for_one
    THEN AndThen(clmm_mul_div(amount_in, sqrt_price_x64, Q64),
           LAMBDA product :
             IF Min(liquidity + product, U128_MAX) = 0
               THEN PlanFails("CalculationFailure")
             ELSE clmm_mul_div(liquidity, sqrt_price_x64,
                               Min(liquidity + product, U128_MAX)))
    ELSE AndThen(clmm_mul_div(amount_in, Q64, liquidity),
           LAMBDA sqrt_price_delta :
             Planned(Min(sqrt_price_x64 + sqrt_price_delta, U128_MAX)))

\* calculate_amount0_delta: `liquidity << 64' drops the bits shifted out,
\* and the product of the two prices is unchecked.
calculate_amount0_delta(checks, sqrt_price_a_x64, sqrt_price_b_x64, liquidity, round_up) ==
  LET sqrt_price_low == Min(sqrt_price_a_x64, sqrt_price_b_x64)
      sqrt_price_high == Max(sqrt_price_a_x64, sqrt_price_b_x64)
      numerator1 == WrappingMul(liquidity, Q64)
      numerator2 == sqrt_price_high - sqrt_price_low
  IN  IF sqrt_price_low = 0 THEN PlanFails("CalculationFailure")
      ELSE AndThen(UncheckedMul(checks, sqrt_price_high, sqrt_price_low),
             LAMBDA denominator :
               AndThen(IF round_up
                         THEN clmm_mul_div_ceil(numerator1, numerator2, denominator)
                         ELSE clmm_mul_div(numerator1, numerator2, denominator),
                 LAMBDA amount :
                   IF sqrt_price_a_x64 <= sqrt_price_b_x64 THEN Planned(amount)
                   ELSE Planned(clmm_neg(amount))))

\* calculate_amount1_delta
calculate_amount1_delta(sqrt_price_a_x64, sqrt_price_b_x64, liquidity, round_up) ==
  LET sqrt_price_low == Min(sqrt_price_a_x64, sqrt_price_b_x64)
      sqrt_price_high == Max(sqrt_price_a_x64, sqrt_price_b_x64)
  IN  AndThen(IF round_up
                THEN clmm_mul_div_ceil(liquidity, sqrt_price_high - sqrt_price_low, Q64)
                ELSE clmm_mul_div(liquidity, sqrt_price_high - sqrt_price_low, Q64),
        LAMBDA amount :
          IF sqrt_price_a_x64 <= sqrt_price_b_x64 THEN Planned(amount)
          ELSE Planned(clmm_neg(amount)))

\* simulate_clmm_swap_output
simulate_clmm_swap_output(sqrt_price_x64, liquidity, amount_in, zero_for_one, trade_fee_rate) ==
  AndThen(sqrt_price_after_amount_in(sqrt_price_x64, liquidity,
            clmm_adjusted_amount(amount_in, trade_fee_rate), zero_for_one),
    LAMBDA new_sqrt_price :
      IF zero_for_one
        THEN IF new_sqrt_price < sqrt_price_x64
               THEN AndThen(clmm_mul_div(liquidity,
                                         sqrt_price_x64 - new_sqrt_price, Q64),
                      LAMBDA delta_y : Planned(AsU64(delta_y)))
               ELSE Planned(0)
      ELSE IF new_sqrt_price > sqrt_price_x64
        THEN AndThen(clmm_mul_div(liquidity, Q64, sqrt_price_x64),
               LAMBDA x_a :
                 AndThen(clmm_mul_div(liquidity, Q64, new_sqrt_price),
                   LAMBDA x_b : Planned(AsU64(x_a - x_b))))
      ELSE Planned(0))

\* simulate_clmm_swap_input.  raw_amount_in * 1_000_000 overflows a u128
\* only from 2^108 on, beyond the amounts taken here.
simulate_clmm_swap_input(checks, sqrt_price_x64, liquidity, amount_out, zero_for_one, trade_fee_rate) ==
  AndThen(IF zero_for_one
            THEN AndThen(clmm_mul_div(amount_out, Q64, liquidity),
                   LAMBDA sqrt_price_delta :
                     calculate_amount0_delta(checks, sqrt_price_x64,
                       saturating_sub(sqrt_price_x64, sqrt_price_delta),
                       liquidity, TRUE))
            ELSE AndThen(clmm_mul_div(amount_out, sqrt_price_x64, liquidity),
                   LAMBDA inv_sqrt_price_delta :
                     AndThen(clmm_mul_div(inv_sqrt_price_delta, Q64, sqrt_price_x64),
                       LAMBDA step :
                         calculate_amount1_delta(sqrt_price_x64,
                           Min(sqrt_price_x64 + step, U128_MAX), liquidity, TRUE))),
    LAMBDA raw_amount_in :
      Planned(AsU64(MulDiv(raw_amount_in, PartsPerMillion,
                           PartsPerMillion - trade_fee_rate))))

\* calculate_price_impact: every product and quotient is unchecked.
calculate_price_impact(checks, current_sqrt_price_x64, liquidity, amount, zero_for_one, is_base_input, fee_rate) ==
  AndThen(UncheckedMul(checks, clmm_adjusted_amount(amount, fee_rate),
                       IF is_base_input = zero_for_one
                         THEN current_sqrt_price_x64 ELSE Q64),
    LAMBDA numerator :
      AndThen(IF is_base_input THEN Planned(liquidity)
              ELSE UncheckedMul(checks, liquidity, 2),
        LAMBDA denominator : UncheckedDiv(numerator, denominator)))

\* The unchecked a - b of u64
UncheckedSub64(checks, a, b) ==
  IF a >= b THEN Planned(a - b)
  ELSE IF checks THEN PlanFails("Panic")
  ELSE Planned((a - b) + Q64)

\* The unchecked a + b of u64
UncheckedAdd64(checks, a, b) ==
  IF a + b <= U64_MAX THEN Planned(a + b)
  ELSE IF checks THEN PlanFails("Panic")
  ELSE Planned((a + b) - Q64)

\* What the victim's trade of the search gives and takes at a price.
clmm_target_quote(checks, price, liquidity, target_amount, target_is_base_input, zero_for_one, trade_fee_rate) ==
  IF target_is_base_input
    THEN simulate_clmm_swap_output(price, liquidity, target_amount,
                                   zero_for_one, trade_fee_rate)
    ELSE simulate_clmm_swap_input(checks, price, liquidity, target_amount,
                                  zero_for_one, trade_fee_rate)

\* The price a trade leaves: saturating_sub for zero_for_one, saturating_add
\* otherwise.
clmm_price_after(sqrt_price_x64, price_impact, zero_for_one) ==
  IF zero_for_one THEN saturating_sub(sqrt_price_x64, price_impact)
  ELSE Min(sqrt_price_x64 + price_impact, U128_MAX)

\* What a round finds when the victim's trade would leave its slippage: no
\* error of the program, the round goes on with a smaller range.
NotWithinSlippage == "NotWithinSlippage"

\* Steps 3 and 4 of a round: the victim's trade after the front-run, the
\* sale of the front-run's output, and the profit.
clmm_candidate_backrun(checks, after_frontrun_price, frontrun_output, liquidity, mid, target_amount, target_is_base_input, zero_for_one, trade_fee_rate) ==
  AndThen(IF target_is_base_input THEN Planned(target_amount)
          ELSE simulate_clmm_swap_input(checks, after_frontrun_price, liquidity,
                                        target_amount, zero_for_one,
                                        trade_fee_rate),
    LAMBDA target_input :
      AndThen(calculate_price_impact(checks, after_frontrun_price, liquidity,
                                     target_input, zero_for_one, TRUE,
                                     trade_fee_rate),
        LAMBDA target_price_impact :
          AndThen(simulate_clmm_swap_output(
                    clmm_price_after(after_frontrun_price, target_price_impact,
                                     zero_for_one),
                    liquidity, frontrun_output, ~zero_for_one, trade_fee_rate),
            LAMBDA backrun_output :
              Planned(saturating_sub(backrun_output, mid)))))

\* Steps 1 and 2 of a round, then the rest: the front-run of `mid', the
\* victim's quote before and after it, and the slippage test.  The result
\* is the profit of the candidate, NotWithinSlippage, or an error.
clmm_candidate(checks, current_sqrt_price_x64, liquidity, mid, target_amount, safe_slippage_bps, target_is_base_input, zero_for_one, trade_fee_rate) ==
  AndThen(calculate_price_impact(checks, current_sqrt_price_x64, liquidity, mid,
                                 zero_for_one, TRUE, trade_fee_rate),
    LAMBDA frontrun_price_impact :
  AndThen(simulate_clmm_swap_output(current_sqrt_price_x64, liquidity, mid,
                                    zero_for_one, trade_fee_rate),
    LAMBDA frontrun_output :
  AndThen(clmm_target_quote(checks, current_sqrt_price_x64, liquidity,
                            target_amount, target_is_base_input, zero_for_one,
                            trade_fee_rate),
    LAMBDA before :
  AndThen(clmm_target_quote(checks,
            clmm_price_after(current_sqrt_price_x64, frontrun_price_impact,
                             zero_for_one),
            liquidity, target_amount, target_is_base_input, zero_for_one,
            trade_fee_rate),
    LAMBDA after :
  AndThen(IF before = 0 THEN Planned(0)
          ELSE IF target_is_base_input THEN UncheckedSub64(checks, before, after)
          ELSE UncheckedSub64(checks, after, before),
    LAMBDA moved :
      IF before > 0 /\ (moved * 10000) \div before > safe_slippage_bps
        THEN PlanFails(NotWithinSlippage)
      ELSE clmm_candidate_backrun(checks,
             clmm_price_after(current_sqrt_price_x64, frontrun_price_impact,
                              zero_for_one),
             frontrun_output, liquidity, mid, target_amount,
             target_is_base_input, zero_for_one, trade_fee_rate))))))

\* The loop of calculate_optimal_clmm_sandwich_amount: `low', `high',
\* `best_amount', `best_profit' are its variables.
RECURSIVE clmm_search(_, _, _, _, _, _, _, _, _, _, _, _, _)
clmm_search(rounds, low, high, best_amount, best_profit, checks, current_sqrt_price_x64, liquidity, target_amount, safe_slippage_bps, target_is_base_input, zero_for_one, trade_fee_rate) ==
  IF rounds = 0 \/ low >= high
    THEN IF best_profit < DustFloor THEN PlanFails("InsufficientSandwichAmount")
         ELSE Planned(best_amount)
  ELSE
    LET sum == UncheckedAdd64(checks, low, high)
        mid == sum.val \div 2
        again(lo, hi, amount, best) ==
          clmm_search(rounds - 1, lo, hi, amount, best, checks,
                      current_sqrt_price_x64, liquidity, target_amount,
                      safe_slippage_bps, target_is_base_input, zero_for_one,
                      trade_fee_rate)
        next(c) ==
          IF c.err = NotWithinSlippage
            THEN again(low, saturating_sub(mid, 1), best_amount, best_profit)
          ELSE IF c.err # "Ok" THEN c
          ELSE again(IF c.val > 0 THEN mid + 1 ELSE low,
                     IF c.val > 0 THEN high ELSE mid - 1,
                     IF c.val > best_profit THEN mid ELSE best_amount,
                     IF c.val > best_profit THEN c.val ELSE best_profit)
    IN  IF sum.err # "Ok" THEN sum
        ELSE Visited(mid,
               next(clmm_candidate(checks, current_sqrt_price_x64, liquidity,
                                   mid, target_amount, safe_slippage_bps,
                                   target_is_base_input, zero_for_one,
                                   trade_fee_rate)))

\* calculate_optimal_clmm_sandwich_amount
calculate_optimal_clmm_sandwich_amount(checks, current_sqrt_price_x64, liquidity, target_amount, safe_slippage_bps, target_is_base_input, zero_for_one, trade_fee_rate) ==
  clmm_search(SearchRounds, 1, Min(target_amount * 3, U64_MAX),
              target_amount \div 5, 0, checks, current_sqrt_price_x64,
              liquidity, target_amount, safe_slippage_bps,
              target_is_base_input, zero_for_one, trade_fee_rate)

(***************************************************************************)
(* Raydium CLMM, clmm/swap.rs.  The front-run of this venue creates its    *)
(* record with `init' under a string seed; its handler is modelled from    *)
(* the result of its planner on and is evaluated on its own, and the       *)
(* back-run meets the records the other string-seeded venues leave.  The   *)
(* pool enters through the quote that simulate_clmm_swap_output gives for  *)
(* the recorded amount.                                                    *)
(***************************************************************************)
ClmmQuotes == {0, BalUnit \div 2}

\* ClmmSandwichBackrun.sandwich_state: the constraints, in their order.
clmm_backrun_constraints(rec, mints) ==
  IF rec.is_complete THEN "SandwichAlreadyCompleted"
  ELSE IF rec.token_in_mint # mints[2] THEN "TokenMintMismatch"
  ELSE IF rec.token_out_mint # mints[1] THEN "TokenMintMismatch"
  ELSE "Ok"

\* The pool program trades at the price the handler has just read.
ClmmSwapOutcomes(amount_in, min_out, quote) ==
  {Unswapped}
    \cup (IF amount_in > 0 /\ quote >= min_out
            THEN {[ok |-> TRUE, got |-> quote, paid |-> amount_in]}
          ELSE {})

\* What calculate_optimal_clmm_sandwich_amount can hand to its caller: an
\* error, or a size.  The search itself is
\* calculate_optimal_clmm_sandwich_amount above; the handler below is taken
\* with every one of these results.
ClmmPlannerResults ==
  {PlanFails("InsufficientSandwichAmount"), PlanFails("CalculationFailure"),
   Planned(0), Planned(50), Planned(DustFloor - 1), Planned(DustFloor),
   Planned(700)}

\* The sqrt price limit clmm_frontrun_swap passes to the pool with its
\* swap, from the victim's declared limit (0: none declared).
clmm_frontrun_sqrt_price_limit(checks, current_sqrt_price_x64, liquidity, optimal_amount, target_sqrt_price_limit_x64, zero_for_one, trade_fee_rate) ==
  AndThen(calculate_price_impact(checks, current_sqrt_price_x64, liquidity,
                                 optimal_amount, zero_for_one, TRUE,
                                 trade_fee_rate),
    LAMBDA price_impact :
      LET lowered == saturating_sub(current_sqrt_price_x64, price_impact)
          raised == Min(current_sqrt_price_x64 + price_impact, U128_MAX)
          min_allowed_price ==
            IF target_sqrt_price_limit_x64 > 0
              THEN Max(target_sqrt_price_limit_x64, lowered)
              ELSE lowered
          max_allowed_price ==
            IF target_sqrt_price_limit_x64 > 0
              THEN Min(target_sqrt_price_limit_x64, raised)
              ELSE raised
      IN  IF zero_for_one
            THEN Planned(Max(MIN_SQRT_PRICE_X64 + 1, min_allowed_price))
          ELSE Planned(Min(MAX_SQRT_PRICE_X64 - 1, max_allowed_price)))

\* clmm_frontrun_swap from the planner's result on: the dust check, the
\* exact-input swap with no minimum output, the reload of both accounts and
\* the record.  The price limit passed to the pool is the one above.
clmm_frontrun_swap(optimal, sandwich_id, mints, input_balance, output_balance, swap) ==
  LET optimal_amount == optimal.val
      output_token_balance_before == output_balance
      input_token_balance_before == input_balance
      frontrun_output_amount ==
        (output_balance + swap.got) - output_token_balance_before
      frontrun_input_amount ==
        input_token_balance_before - (input_balance - swap.paid)
  IN  IF optimal.err # "Ok" THEN Rejected(optimal.err)
      ELSE IF optimal_amount < DustFloor
        THEN Rejected("InsufficientSandwichAmount")
      ELSE IF ~swap.ok THEN SwapFailed(optimal_amount, 0)
      ELSE Outcome("Ok", "done", optimal_amount, 0, swap.got,
                   SandwichState(frontrun_output_amount, frontrun_input_amount,
                                 sandwich_id, FALSE, mints[1], mints[2]),
                   NoEvent)

\* clmm_backrun_swap, for mints of the SPL token program (no transfer fee).
\* The output account is reloaded after the swap.
clmm_backrun_swap(rec, sandwich_id, raw_expected_output, balance, swap) ==
  LET frontrun_output == rec.frontrun_output_amount
      frontrun_input == rec.frontrun_input_amount
      expected_output == raw_expected_output
      min_required_output == (frontrun_input * MinProfitFactor) \div 1000
      minimum_output ==
        Max((expected_output * BackrunMarginPct) \div 100, min_required_output)
      output_token_balance_before == balance
      actual_output == (balance + swap.got) - output_token_balance_before
      profit == saturating_sub(actual_output, frontrun_input)
  IN  IF minimum_output <= frontrun_input THEN Rejected("UnprofitableSandwich")
      ELSE IF ~swap.ok THEN SwapFailed(frontrun_output, minimum_output)
      ELSE Outcome("Ok", "done", frontrun_output, minimum_output, swap.got,
                   [rec EXCEPT !.is_complete = TRUE],
                   SandwichCompleteEvent(sandwich_id, profit, frontrun_input,
                                         actual_output))

ClmmBackrunCalls ==
  {[sid |-> sid, mints |-> mints, quote |-> q] :
     sid \in BackrunIds, mints \in MintPairs, q \in ClmmQuotes}

\* ClmmSandwichBackrun: the seed is read as a string although the handler
\* takes a u64.
clmm_backrun_attempts(c) ==
  LET seed == BorshString(Args1(c.sid))
      rec == store[seed.val]
      presented == << c.mints[2], c.mints[1] >>
      run(swap) == clmm_backrun_swap(rec, c.sid, c.quote, BalUnit, swap)
  IN  IF ~seed.ok
        THEN {Attempt(seed.val, presented,
                      Rejected("InstructionDidNotDeserialize"))}
      ELSE IF seed.val \notin DOMAIN store
        THEN {Attempt(seed.val, presented, Rejected("AccountNotInitialized"))}
      ELSE IF clmm_backrun_constraints(rec, c.mints) # "Ok"
        THEN {Attempt(seed.val, presented,
                      Rejected(clmm_backrun_constraints(rec, c.mints)))}
      ELSE {Attempt(seed.val, presented, run(swap)) :
              swap \in ClmmSwapOutcomes(run(Unswapped).swap_in,
                                        run(Unswapped).swap_min, c.quote)}

ClmmBackrunSwap ==
  \E c \in ClmmBackrunCalls :
    \E a \in clmm_backrun_attempts(c) :
      Commit("clmm_backrun_swap", a.key, a.mints, a.o)

(***************************************************************************)
(* Two back-run executions for one record.  Every back-run declares the    *)
(* record account `mut', so the runtime gives a transaction the write lock *)
(* of the account for its whole execution: an execution takes the lock,    *)
(* runs its handler (check of is_complete, swap, write, event) and commits *)
(* or aborts, and releases the lock.                                       *)
(***************************************************************************)
Procs == {1, 2}

Backruns ==
  {[op |-> "cpmm_backrun_swap_base_input", c |-> c] : c \in CpmmBackrunCalls}
    \cup {[op |-> "cpmm_backrun_swap_base_output", c |-> c] :
            c \in CpmmBackrunCalls}
    \cup {[op |-> "pumpswap_backrun_buy", c |-> c] : c \in PumpBackrunCalls}
    \cup {[op |-> "pumpswap_backrun_sell", c |-> c] : c \in PumpBackrunCalls}
    \cup {[op |-> "pumpfun_backrun_buy", c |-> c] : c \in PumpFunBackrunCalls}
    \cup {[op |-> "amm_backrun_swap_base_in", c |-> c] : c \in AmmBackrunCalls}
    \cup {[op |-> "clmm_backrun_swap", c |-> c] : c \in ClmmBackrunCalls}

BackrunAttempts(b) ==
  CASE b.op = "cpmm_backrun_swap_base_input" -> cpmm_backrun_input_attempts(b.c)
    [] b.op = "cpmm_backrun_swap_base_output" -> cpmm_backrun_output_attempts(b.c)
    [] b.op = "pumpswap_backrun_buy" -> pumpswap_backrun_buy_attempts(b.c)
    [] b.op = "pumpswap_backrun_sell" -> pumpswap_backrun_sell_attempts(b.c)
    [] b.op = "pumpfun_backrun_buy" -> pumpfun_backrun_attempts(b.c)
    [] b.op = "amm_backrun_swap_base_in" -> amm_backrun_attempts(b.c)
    [] b.op = "clmm_backrun_swap" -> clmm_backrun_attempts(b.c)

\* The back-runs that address the record under `key' and that it admits as
\* it stands: they get as far as the swap.
AdmittedBackruns(key) ==
  {b \in Backruns : \A a \in BackrunAttempts(b) :
                      a.key = key /\ a.o.cpi # "none"}

\* What a successful front-run on the empty store leaves.
FrontrunWrites ==
  {[op |-> "cpmm_frontrun_swap_base_input", key |-> c.seed.val, o |-> c.o] :
     c \in {d \in CpmmFrontrunCalls : d.o.err = "Ok"}}
    \cup {[op |-> "cpmm_frontrun_swap_base_output", key |-> c.seed.val,
           o |-> c.o] : c \in {d \in CpmmFrontrunOutputCalls : d.o.err = "Ok"}}
    \cup {[op |-> "pumpswap_frontrun_sell", key |-> c.seed.val, o |-> c.o] :
            c \in {d \in PumpFrontrunSellCalls : d.o.err = "Ok"}}
    \cup {[op |-> "pumpfun_frontrun_buy", key |-> c.seed.val, o |-> c.o] :
            c \in {d \in PumpFunFrontrunCalls :
                     d.o.err = "Ok" /\ d.tin = ZeroState.token_in_mint}}
    \cup {[op |-> "amm_frontrun_swap_base_in", key |-> c.seed.val, o |-> c.o] :
            c \in {d \in AmmFrontrunCalls : d.o.err = "Ok"}}

\* A front-run on the empty store writes a pending record.
RaceFrontrun ==
  \E w \in FrontrunWrites :
    /\ race.phase = "idle" /\ DOMAIN store = {}
    /\ Effect(w.op, w.key, NoMints, w.o)
    /\ UNCHANGED << race, calc >>

\* Two back-run executions that the record admits are submitted for it.
RaceStart ==
  /\ race.phase = "idle"
  /\ last.key \in DOMAIN store
  /\ ~store[last.key].is_complete
  /\ \E b1 \in AdmittedBackruns(last.key), b2 \in AdmittedBackruns(last.key) :
       race' = [phase |-> "racing", key |-> last.key, lock |-> 0,
                calls |-> << b1, b2 >>,
                pc |-> << "submitted", "submitted" >>,
                res |-> << Rejected("Pending"), Rejected("Pending") >>,
                order |-> << >>]
  /\ UNCHANGED << store, events, last, calc >>

\* An execution is scheduled when no other holds the record.
RaceLock(p) ==
  /\ race.phase = "racing" /\ race.pc[p] = "submitted" /\ race.lock = 0
  /\ race' = [race EXCEPT !.lock = p, !.pc[p] = "running"]
  /\ UNCHANGED << store, events, last, calc >>

\* The handler runs on the record as it is now.
RaceRun(p) ==
  /\ race.phase = "racing" /\ race.pc[p] = "running" /\ race.lock = p
  /\ \E a \in BackrunAttempts(race.calls[p]) :
       /\ Effect(race.calls[p].op, a.key, a.mints, a.o)
       /\ race' = [race EXCEPT !.lock = 0, !.pc[p] = "done", !.res[p] = a.o,
                               !.order = Append(@, p)]
  /\ UNCHANGED calc

Next ==
  \/ CpmmFrontrunSwapBaseInput
  \/ CpmmBackrunSwapBaseInput
  \/ CpmmFrontrunSwapBaseOutput
  \/ CpmmBackrunSwapBaseOutput
  \/ PumpFrontrunSell
  \/ PumpBackrunBuy
  \/ PumpBackrunSell
  \/ PumpFunFrontrunBuy
  \/ PumpFunBackrunBuy
  \/ AmmFrontrunSwapBaseIn
  \/ AmmBackrunSwapBaseIn
  \/ ClmmBackrunSwap

Spec == Init /\ [][Next]_vars

NextRace ==
  \/ RaceFrontrun
  \/ RaceStart
  \/ \E p \in Procs : RaceLock(p)
  \/ \E p \in Procs : RaceRun(p)

SpecRace == Init /\ [][NextRace]_vars

(***************************************************************************)
(* The planners and the front-run handlers on their own: each step         *)
(* evaluates one of them on a pool snapshot and a victim trade, and `calc' *)
(* keeps the arguments and the result.                                     *)
(***************************************************************************)
CalcReserves == {<<20000, 30000>>, <<50000, 20000>>, <<5000, 8000>>}
CalcSlippageBps == {0, 475}
CalcTargets == {100, 1000, 4000}

CalcOptimalSandwichAmount ==
  \E r \in CalcReserves, bps \in CalcSlippageBps, t \in CalcTargets :
    /\ calc' = [fn |-> "calculate_optimal_sandwich_amount",
                reserve_in |-> r[1], reserve_out |-> r[2],
                safe_slippage_bps |-> bps, target |-> t, fees |-> CpmmFeeRates,
                res |-> cpmm_calculate_optimal_sandwich_amount(r[1], r[2], bps,
                                                               t, CpmmFeeRates)]
    /\ UNCHANGED << store, events, last, race >>

CalcOptimalSandwichOutputAmount ==
  \E r \in CalcReserves, bps \in CalcSlippageBps, t \in CalcTargets :
    /\ calc' = [fn |-> "calculate_optimal_sandwich_output_amount",
                reserve_in |-> r[1], reserve_out |-> r[2],
                safe_slippage_bps |-> bps, target |-> t, fees |-> CpmmFeeRates,
                res |-> calculate_optimal_sandwich_output_amount(r[1], r[2], bps,
                                                                 t, CpmmFeeRates)]
    /\ UNCHANGED << store, events, last, race >>

\* The victim's declared minimum output (or maximum input).
CalcMinimums == {0, 380, 1600}
CalcPool(r) == [vault_in |-> r[1], vault_out |-> r[2], fees_in |-> 0, fees_out |-> 0]

\* cpmm_frontrun_swap_base_input on a snapshot, with each outcome of the
\* swap it asks for.
CalcCpmmFrontrun ==
  \E r \in CalcReserves, t \in CalcTargets, m \in CalcMinimums :
    LET run(swap) == cpmm_frontrun_swap_base_input(t, m, 1, CalcPool(r),
                        CpmmFeeRates, CpmmMints, TRUE, 0, BalUnit, swap)
    IN  \E swap \in CpmmSwapOutcomes(run(Unswapped).swap_in,
                                     run(Unswapped).swap_min, CalcPool(r),
                                     CpmmFeeRates) :
          /\ calc' = [fn |-> "cpmm_frontrun_swap_base_input",
                      reserve_in |-> r[1], reserve_out |-> r[2], target |-> t,
                      minimum |-> m, fees |-> CpmmFeeRates, o |-> run(swap)]
          /\ UNCHANGED << store, events, last, race >>

\* The victim's (maximum input, exact output) of an exact-output trade.
CalcOutputTargets == {<<70, 100>>, <<500, 100>>, <<1000, 500>>, <<4000, 1000>>}

\* cpmm_frontrun_swap_base_output on a snapshot.
CalcCpmmFrontrunOutput ==
  \E r \in CalcReserves, t \in CalcOutputTargets :
    LET run(swap) == cpmm_frontrun_swap_base_output(t[1], t[2], 1, CalcPool(r),
                        CpmmFeeRates, CpmmMints, TRUE, 0, BalUnit, swap)
    IN  \E swap \in CpmmBuyOutcomes(run(Unswapped).swap_min,
                                    run(Unswapped).swap_in, CalcPool(r),
                                    CpmmFeeRates) :
          /\ calc' = [fn |-> "cpmm_frontrun_swap_base_output",
                      reserve_in |-> r[1], reserve_out |-> r[2],
                      target |-> t[2], maximum |-> t[1], fees |-> CpmmFeeRates,
                      o |-> run(swap)]
          /\ UNCHANGED << store, events, last, race >>

CalcPumpFees == <<5, 5, 20>>

\* pumpswap_frontrun_sell on a snapshot.
CalcPumpFrontrun ==
  \E r \in CalcReserves, t \in CalcTargets, m \in CalcMinimums :
    LET run(swap) == pumpswap_frontrun_sell(t, m, 1, r[1], r[2], CalcPumpFees,
                        TRUE, PumpMints, r[2] + BalUnit, swap)
    IN  \E swap \in SwapOutcomes(run(Unswapped).swap_in,
                                 run(Unswapped).swap_min) :
          /\ calc' = [fn |-> "pumpswap_frontrun_sell",
                      reserve_in |-> r[1], reserve_out |-> r[2], target |-> t,
                      minimum |-> m, fees |-> CalcPumpFees, o |-> run(swap)]
          /\ UNCHANGED << store, events, last, race >>

\* clmm_frontrun_swap with each result of its planner and each quote of
\* the pool.
CalcClmmFrontrun ==
  \E p \in ClmmPlannerResults, q \in ClmmQuotes :
    LET run(swap) == clmm_frontrun_swap(p, 1, CpmmMints, BalUnit, BalUnit, swap)
    IN  \E swap \in ClmmSwapOutcomes(run(Unswapped).swap_in,
                                     run(Unswapped).swap_min, q) :
          /\ calc' = [fn |-> "clmm_frontrun_swap", plan |-> p, quote |-> q,
                      o |-> run(swap)]
          /\ UNCHANGED << store, events, last, race >>

\* The bonding curve and the victim's buy (tokens out, maximum SOL in).
CalcCurve == [v_tokens |-> 100, v_sol |-> 1000]
CalcBuys == {<<5, 60>>, <<5, 40>>, <<2, 30>>, <<2, 20>>}
CalcFees == {0, PUMPFUN_FEE_PPM}

\* compute_front_run_with_fee on a curve and a victim's buy.
CalcComputeFrontRunWithFee ==
  \E t \in CalcBuys, fee \in CalcFees :
    /\ calc' = [fn |-> "compute_front_run_with_fee",
                v_tokens |-> CalcCurve.v_tokens, v_sol |-> CalcCurve.v_sol,
                target_token_amount_out |-> t[1],
                target_max_sol_amount_in |-> t[2], fee |-> fee,
                min_profit_pct |-> MIN_PROFIT_PPM,
                res |-> compute_front_run_with_fee(CalcCurve.v_tokens,
                           CalcCurve.v_sol, t[1], t[2], fee, MIN_PROFIT_PPM)]
    /\ UNCHANGED << store, events, last, race >>

\* pumpfun_frontrun_buy on a curve, with each outcome of the buy it asks for.
CalcPumpFunFrontrun ==
  \E t \in CalcBuys :
    LET run(swap) == pumpfun_frontrun_buy(t[1], t[2], 1, CalcCurve.v_tokens,
                        CalcCurve.v_sol, "M1", PumpFunLamports, "ZERO", swap)
    IN  \E swap \in BuyOutcomes(run(Unswapped).swap_min, run(Unswapped).swap_in) :
          /\ calc' = [fn |-> "pumpfun_frontrun_buy",
                      v_tokens |-> CalcCurve.v_tokens, v_sol |-> CalcCurve.v_sol,
                      target_token_amount_out |-> t[1],
                      target_max_sol_amount_in |-> t[2], o |-> run(swap)]
          /\ UNCHANGED << store, events, last, race >>

\* The candidates of the searches, on their own.
CalcCandidates == {150, 400, 1200}

\* The profit each search computes for a candidate.
CalcCandidateProfit ==
  \E r \in CalcReserves, t \in CalcTargets, mid \in CalcCandidates :
    \E planner \in {"calculate_optimal_sandwich_amount",
                    "calculate_optimal_sandwich_output_amount"} :
      /\ calc' = [fn |-> "candidate", planner |-> planner,
                  reserve_in |-> r[1], reserve_out |-> r[2], target |-> t,
                  mid |-> mid, fees |-> CpmmFeeRates,
                  res |-> IF planner = "calculate_optimal_sandwich_amount"
                            THEN cpmm_candidate_profit(mid, r[1], r[2], t,
                                                       CpmmFeeRates)
                            ELSE cpmm_output_candidate_profit(mid, r[1], r[2],
                                                              t, CpmmFeeRates)]
      /\ UNCHANGED << store, events, last, race >>

\* Snapshots of a concentrated-liquidity pool (sqrt price, liquidity), and
\* the trade fee rate of its AmmConfig, the one of the constant-product
\* pools.
ClmmSnapshots == {<<Q64, 5000>>, <<Q64 * 2, 5000>>, <<Q64 * 2^6, 5000>>, <<Q64, 0>>}
ClmmPricedSnapshots == {s \in ClmmSnapshots : s[1] = Q64}
ClmmAmounts == {98, 1000}
ClmmFeeRate == CpmmFeeRates[1]

\* calculate_optimal_clmm_sandwich_amount on a snapshot, in either build.
CalcOptimalClmmSandwichAmount ==
  \E checks \in BOOLEAN, s \in ClmmPricedSnapshots, t \in ClmmAmounts :
    \E target_is_base_input \in BOOLEAN, zero_for_one \in BOOLEAN :
      /\ calc' = [fn |-> "calculate_optimal_clmm_sandwich_amount",
                  checks |-> checks, sqrt_price_x64 |-> s[1],
                  liquidity |-> s[2], target |-> t,
                  safe_slippage_bps |-> 475,
                  is_base_input |-> target_is_base_input,
                  zero_for_one |-> zero_for_one,
                  res |-> calculate_optimal_clmm_sandwich_amount(checks, s[1],
                            s[2], t, 475, target_is_base_input, zero_for_one,
                            ClmmFeeRate)]
      /\ UNCHANGED << store, events, last, race >>

\* simulate_clmm_swap_input for an output, and simulate_clmm_swap_output of
\* the input it returns.
CalcSimulateClmmSwapInput ==
  \E checks \in BOOLEAN, s \in ClmmSnapshots, amount_out \in ClmmAmounts :
    \E zero_for_one \in BOOLEAN, fee \in {ClmmFeeRate} :
      LET amount_in == simulate_clmm_swap_input(checks, s[1], s[2], amount_out,
                                                zero_for_one, fee)
      IN  /\ calc' = [fn |-> "simulate_clmm_swap_input", checks |-> checks,
                      sqrt_price_x64 |-> s[1], liquidity |-> s[2],
                      amount_out |-> amount_out, zero_for_one |-> zero_for_one,
                      fee |-> fee, res |-> amount_in,
                      back |-> simulate_clmm_swap_output(s[1], s[2],
                                 amount_in.val, zero_for_one, fee)]
          /\ UNCHANGED << store, events, last, race >>

\* calculate_price_impact on a snapshot, in either build.
CalcPriceImpact ==
  \E checks \in BOOLEAN, s \in ClmmSnapshots, amount \in {1000} :
    \E zero_for_one \in BOOLEAN, is_base_input \in BOOLEAN :
      /\ calc' = [fn |-> "calculate_price_impact", checks |-> checks,
                  sqrt_price_x64 |-> s[1], liquidity |-> s[2],
                  amount |-> amount, zero_for_one |-> zero_for_one,
                  is_base_input |-> is_base_input,
                  res |-> calculate_price_impact(checks, s[1], s[2], amount,
                            zero_for_one, is_base_input, ClmmFeeRate)]
      /\ UNCHANGED << store, events, last, race >>

\* The sqrt price limits a victim can declare: none, the two ends of the
\* pool's range, and one on either side of the price 1.
ClmmTargetLimits ==
  {0, MIN_SQRT_PRICE_X64, Q64 - 200, Q64 + 200, MAX_SQRT_PRICE_X64}

\* The price limit of clmm_frontrun_swap on a snapshot, for a planned size
\* that passed the dust check.
CalcFrontrunPriceLimit ==
  \E checks \in BOOLEAN, s \in ClmmPricedSnapshots, limit \in ClmmTargetLimits :
    \E zero_for_one \in BOOLEAN :
      /\ calc' = [fn |-> "frontrun_sqrt_price_limit", checks |-> checks,
                  sqrt_price_x64 |-> s[1], liquidity |-> s[2],
                  optimal_amount |-> 1000, target_limit |-> limit,
                  zero_for_one |-> zero_for_one,
                  res |-> clmm_frontrun_sqrt_price_limit(checks, s[1], s[2],
                            1000, limit, zero_for_one, ClmmFeeRate)]
      /\ UNCHANGED << store, events, last, race >>

\* Pending records (frontrun_input_amount, frontrun_output_amount) and the
\* pools their back-runs find.
CalcBackrunRecords == {<<150, 150>>, <<1200, 1500>>, <<800, 1500>>}
CalcBackrunPool == CalcPool(<<30000, 20000>>)
CalcBackrunSnapshot == <<Q64, 5000>>

\* cpmm_backrun_swap_base_input and clmm_backrun_swap on a pending record,
\* with each outcome of the swap they ask for.
CalcBackrun ==
  \E r \in CalcBackrunRecords :
    \E venue \in {"cpmm_backrun_swap_base_input", "clmm_backrun_swap"} :
      LET rec == SandwichState(r[2], r[1], 1, FALSE, CpmmMints[1], CpmmMints[2])
          current == vault_amount_without_fee(CalcBackrunPool)
          expected ==
            IF venue = "clmm_backrun_swap"
              THEN simulate_clmm_swap_output(CalcBackrunSnapshot[1],
                     CalcBackrunSnapshot[2], r[2], TRUE, ClmmFeeRate)
              ELSE cpmm_calculate_expected_output(r[2], current.val[1],
                                                  current.val[2], CpmmFeeRates)
          run(swap) ==
            IF venue = "clmm_backrun_swap"
              THEN clmm_backrun_swap(rec, 1, expected.val, BalUnit, swap)
              ELSE cpmm_backrun_swap_base_input(rec, 1, CalcBackrunPool,
                                                CpmmFeeRates, TRUE, BalUnit, swap)
          dry == run(Unswapped)
          swaps ==
            IF venue = "clmm_backrun_swap"
              THEN ClmmSwapOutcomes(dry.swap_in, dry.swap_min, expected.val)
              ELSE CpmmSwapOutcomes(dry.swap_in, dry.swap_min, CalcBackrunPool,
                                    CpmmFeeRates)
      IN  \E swap \in swaps :
            /\ calc' = [fn |-> venue, frontrun_input |-> r[1],
                        frontrun_output |-> r[2], expected |-> expected.val,
                        o |-> run(swap)]
            /\ UNCHANGED << store, events, last, race >>

NextCalc ==
  \/ CalcOptimalSandwichAmount
  \/ CalcOptimalSandwichOutputAmount
  \/ CalcCpmmFrontrun
  \/ CalcCpmmFrontrunOutput
  \/ CalcPumpFrontrun
  \/ CalcClmmFrontrun
  \/ CalcComputeFrontRunWithFee
  \/ CalcPumpFunFrontrun
  \/ CalcCandidateProfit
  \/ CalcOptimalClmmSandwichAmount
  \/ CalcSimulateClmmSwapInput
  \/ CalcPriceImpact
  \/ CalcFrontrunPriceLimit
  \/ CalcBackrun

SpecCalc == Init /\ [][NextCalc]_vars


(***************************************************************************)
(* Properties.                                                             *)
(***************************************************************************)
FrontrunOps == {"cpmm_frontrun_swap_base_input", "cpmm_frontrun_swap_base_output",
                "pumpswap_frontrun_sell", "pumpfun_frontrun_buy",
                "amm_frontrun_swap_base_in"}
BackrunOps == {"cpmm_backrun_swap_base_input", "cpmm_backrun_swap_base_output",
               "pumpswap_backrun_buy", "pumpswap_backrun_sell",
               "pumpfun_backrun_buy", "amm_backrun_swap_base_in",
               "clmm_backrun_swap"}

\* The step just taken is a back-run that found a record under its key.
BackrunOn(complete) ==
  /\ last'.op \in BackrunOps
  /\ last'.key \in DOMAIN store
  /\ store[last'.key].is_complete = complete

\* The step just taken is a front-run that found a record under its key.
FrontrunOn(complete) ==
  /\ last'.op \in FrontrunOps
  /\ last'.key \in DOMAIN store
  /\ store[last'.key].is_complete = complete

\* C1: once a record is complete it stays complete, whatever operation
\* follows, a front-run on the same record included.
C1_CompleteIsTerminal ==
  [][\A k \in DOMAIN store :
       store[k].is_complete => k \in DOMAIN store' /\ store'[k].is_complete]_vars

\* C2: a back-run on a complete record fails with SandwichAlreadyCompleted,
\* invokes no swap, emits no event and leaves the store as it was; so the
\* back-run after a completing back-run of the same record fails that way.
C2_BackrunOnCompleteFails ==
  [][BackrunOn(TRUE) =>
       /\ last'.err = "SandwichAlreadyCompleted"
       /\ last'.cpi = "none"
       /\ last'.ev = NoEvent
       /\ events' = events
       /\ store' = store]_vars

\* C2, its case: a record was completed with an event, and the back-run
\* that came after was refused.
C2_RefusedAfterCompletion ==
  /\ last.op \in BackrunOps
  /\ last.err = "SandwichAlreadyCompleted"
  /\ last.key \in DOMAIN store
  /\ store[last.key].is_complete
  /\ Len(events) >= 1

RaceDone(p) == race.phase = "racing" /\ race.pc[p] = "done"
RaceOver == \A p \in Procs : RaceDone(p)
Completes(p) ==
  /\ race.res[p].err = "Ok"
  /\ race.res[p].rec.is_complete
  /\ race.res[p].ev # NoEvent
FailsClosed(p) ==
  race.res[p].err = "SandwichAlreadyCompleted" /\ race.res[p].cpi = "none"
RanBefore(p, q) ==
  \E i, j \in 1 .. Len(race.order) :
    i < j /\ race.order[i] = p /\ race.order[j] = q

\* C3 as stated: of two back-run executions started on a pending record,
\* exactly one completes it and emits the event, and the other fails with
\* SandwichAlreadyCompleted without a swap.
C3_ExactlyOneCompletes ==
  RaceOver =>
    \E p \in Procs :
      /\ Completes(p)
      /\ \A q \in Procs \ {p} : FailsClosed(q)

\* C3 amended: of two back-run executions started on a pending record, at
\* most one completes it and at most one event is emitted; an execution
\* that runs after the completing one fails with SandwichAlreadyCompleted
\* without a swap; an execution that does neither failed at its swap, and
\* both may.
C3_AtMostOneCompletes ==
  /\ \A p, q \in Procs :
       RaceDone(p) /\ RaceDone(q) /\ Completes(p) /\ Completes(q) => p = q
  /\ race.phase = "racing" => Len(events) <= 1
  /\ \A p, q \in Procs :
       RaceDone(p) /\ RaceDone(q) /\ Completes(p) /\ RanBefore(p, q)
         => FailsClosed(q)
  /\ \A p \in Procs :
       RaceDone(p) /\ ~Completes(p) /\ ~FailsClosed(p)
         => race.res[p].err = "SwapFailed" /\ race.res[p].cpi = "failed"

\* C3, its case: the first execution completed the record and the second
\* was refused.
C3_OneCompletedOneRefused ==
  /\ RaceOver
  /\ \E p, q \in Procs : Completes(p) /\ RanBefore(p, q) /\ FailsClosed(q)

\* C4: a front-run on a complete record fails with
\* SandwichAlreadyCompleted, invokes no swap and leaves the store as it was.
C4_FrontrunOnCompleteFails ==
  [][FrontrunOn(TRUE) =>
       /\ last'.err = "SandwichAlreadyCompleted"
       /\ last'.cpi = "none"
       /\ store' = store]_vars

\* C5: no two completion events carry the same sandwich_id.
C5_OneEventPerId ==
  \A i, j \in 1 .. Len(events) :
    i # j => events[i].sandwich_id # events[j].sandwich_id

\* C6: the front-run amounts of a record that exists never change.
C6_AmountsWriteOnce ==
  [][\A k \in DOMAIN store :
       /\ k \in DOMAIN store'
       /\ store'[k].frontrun_input_amount = store[k].frontrun_input_amount
       /\ store'[k].frontrun_output_amount = store[k].frontrun_output_amount]_vars

\* The mints presented differ from those of the record.
Mismatch(presented, rec) ==
  \/ presented[1] \notin {"ANY", rec.token_in_mint}
  \/ presented[2] \notin {"ANY", rec.token_out_mint}

\* C7: a back-run on a pending record that presents mints other than the
\* recorded ones fails with TokenMintMismatch, invokes no swap and does not
\* complete the record.
C7_MintMismatchFails ==
  [][BackrunOn(FALSE) /\ Mismatch(last'.mints, store[last'.key]) =>
       /\ last'.err = "TokenMintMismatch"
       /\ last'.cpi = "none"
       /\ ~store'[last'.key].is_complete]_vars

\* C8: a back-run on a pending record with a recorded output of zero, which
\* presents the recorded mints and the pool's own vaults, fails with
\* EmptySupply, invokes no swap, emits no event and does not complete the
\* record.
C8_EmptySupplyFails ==
  [][/\ BackrunOn(FALSE)
     /\ ~Mismatch(last'.mints, store[last'.key])
     /\ store[last'.key].frontrun_output_amount = 0
     /\ last'.err # "InvalidVault"
     => /\ last'.err = "EmptySupply"
        /\ last'.cpi = "none"
        /\ events' = events
        /\ ~store'[last'.key].is_complete]_vars

\* The key under which the back-run of a venue looks for its record when it
\* is invoked with sandwich_id = s.
BackrunKey(op, s) ==
  IF op \in {"pumpfun_frontrun_buy", "amm_frontrun_swap_base_in"}
    THEN BorshString(Args1(s)).val
    ELSE BorshU64(Args1(s)).val

\* C9: a front-run invoked with sandwich_id = s writes the record under the
\* key that a back-run invoked with sandwich_id = s reads.
C9_KeyedBySandwichId ==
  [][last'.op \in FrontrunOps /\ last'.err = "Ok" =>
       last'.key = BackrunKey(last'.op, store'[last'.key].sandwich_id)]_vars

\* C10: the event of a completing back-run reports as output what the swap
\* paid into the user's receiving account (its balance after less its
\* balance before), and as profit that output less the recorded input,
\* floored at zero.
C10_ProfitFromOutputBalance ==
  [][last'.op \in BackrunOps /\ last'.err = "Ok" =>
       /\ last'.ev.output_amount = last'.got
       /\ last'.ev.profit =
            saturating_sub(last'.got, store[last'.key].frontrun_input_amount)]_vars

\* The victim's price impact in basis points once a front-run of `size' has
\* traded on the snapshot: the fall of the victim's output for an
\* exact-input victim, the rise of the victim's input for an exact-output
\* one.  Beyond every tolerance where the curve gives no quote.
ImpactBeyondAll == 10000 + 1
VictimImpactBps(c, size) ==
  IF c.fn = "calculate_optimal_sandwich_amount"
    THEN LET f == c.fees
             front == CurveSwapBaseInput(size, c.reserve_in, c.reserve_out,
                                         f[1], f[2], f[3])
             before == CurveSwapBaseInput(c.target, c.reserve_in, c.reserve_out,
                                          f[1], f[2], f[3])
             after == CurveSwapBaseInput(c.target,
                        c.reserve_in + front.source_amount_swapped,
                        c.reserve_out - front.destination_amount_swapped,
                        f[1], f[2], f[3])
         IN  IF ~front.ok \/ ~before.ok \/ ~after.ok
                  \/ before.destination_amount_swapped = 0
               THEN ImpactBeyondAll
             ELSE ((before.destination_amount_swapped
                      - after.destination_amount_swapped) * 10000)
                    \div before.destination_amount_swapped
    ELSE LET f == c.fees
             front == CurveSwapBaseOutput(size, c.reserve_in, c.reserve_out,
                                          f[1], f[2], f[3])
             before == CurveSwapBaseOutput(c.target, c.reserve_in, c.reserve_out,
                                           f[1], f[2], f[3])
             after == CurveSwapBaseOutput(c.target,
                        c.reserve_in + front.source_amount_swapped,
                        c.reserve_out - front.destination_amount_swapped,
                        f[1], f[2], f[3])
         IN  IF ~front.ok \/ ~before.ok \/ ~after.ok
                  \/ before.source_amount_swapped = 0
               THEN ImpactBeyondAll
             ELSE ((after.source_amount_swapped
                      - before.source_amount_swapped) * 10000)
                    \div before.source_amount_swapped

BisectionPlanners == {"calculate_optimal_sandwich_amount",
                      "calculate_optimal_sandwich_output_amount"}

\* C11: a bisection planner fails, or the size it returns leaves the
\* victim's price impact, recomputed on the pool after the front-run, at
\* most safe_slippage_bps.
C11_PlanWithinSlippage ==
  calc.fn \in BisectionPlanners /\ calc.res.err = "Ok"
    => VictimImpactBps(calc, calc.res.val) <= calc.safe_slippage_bps


\* The profit the CPMM planner simulates for a front-run of `size': the
\* front-run, the victim and the back-run traded in turn on the snapshot.
CpmmSimulatedProfit(c, size) ==
  LET f == c.fees
      front == CurveSwapBaseInput(size, c.reserve_in, c.reserve_out,
                                  f[1], f[2], f[3])
      rin1 == c.reserve_in + front.source_amount_swapped
      rout1 == c.reserve_out - front.destination_amount_swapped
      victim == CurveSwapBaseInput(c.target, rin1, rout1, f[1], f[2], f[3])
      back == CurveSwapBaseInput(front.destination_amount_swapped,
                                 rout1 - victim.destination_amount_swapped,
                                 rin1 + c.target, f[1], f[2], f[3])
  IN  IF front.ok /\ victim.ok /\ back.ok
        THEN back.destination_amount_swapped - size
        ELSE 0 - size

\* C12: a front-run that requests its swap does so with a plan whose
\* simulated profit is at least 0.5% of the front-run input.
C12_AcceptedPlanIsProfitable ==
  calc.fn = "cpmm_frontrun_swap_base_input" /\ calc.o.cpi # "none"
    => CpmmSimulatedProfit(calc, calc.o.swap_in) * 1000
         >= calc.o.swap_in * (MinProfitFactor - 1000)


\* The victim's exact-input trade, quoted on the unmodified snapshot, pays
\* less than the minimum the victim declared.
VictimFailsUnattacked(c) ==
  LET quote == CurveSwapBaseInput(c.target, c.reserve_in, c.reserve_out,
                                  c.fees[1], c.fees[2], c.fees[3])
  IN  quote.ok /\ quote.destination_amount_swapped < c.minimum

\* C13: when the victim's trade already fails its own slippage bound on the
\* unmodified snapshot, the front-run fails with ExceededSlippage, requests
\* no swap and writes no record.
C13_ExceededSlippageRefused ==
  calc.fn = "cpmm_frontrun_swap_base_input" /\ VictimFailsUnattacked(calc)
    => calc.o.err = "ExceededSlippage" /\ calc.o.cpi = "none"

(***************************************************************************)
(* The dust floor of the bisection planners.                               *)
(***************************************************************************)
BisectionFrontruns ==
  {"cpmm_frontrun_swap_base_input", "cpmm_frontrun_swap_base_output",
   "pumpswap_frontrun_sell", "clmm_frontrun_swap"}

\* The tolerance a handler derives from the victim's trade, as 95% of the
\* distance between the quote and the declared bound.
SafeSlippage(quote, bound, exact_in) ==
  LET bps == IF exact_in THEN (saturating_sub(quote, bound) * 10000) \div quote
             ELSE (saturating_sub(bound, quote) * 10000) \div quote
  IN  (bps * 95) \div 100

\* The result of the planner the handler of c ran.
FrontrunPlan(c) ==
  CASE c.fn = "cpmm_frontrun_swap_base_input" ->
         LET e == cpmm_calculate_expected_output(c.target, c.reserve_in,
                                                 c.reserve_out, c.fees).val
         IN  cpmm_calculate_optimal_sandwich_amount(c.reserve_in, c.reserve_out,
                SafeSlippage(e, c.minimum, TRUE), c.target, c.fees)
    [] c.fn = "cpmm_frontrun_swap_base_output" ->
         LET e == CurveSwapBaseOutput(c.target, c.reserve_in, c.reserve_out,
                     c.fees[1], c.fees[2], c.fees[3]).source_amount_swapped
         IN  calculate_optimal_sandwich_output_amount(c.reserve_in,
                c.reserve_out, SafeSlippage(e, c.maximum, FALSE), c.target,
                c.fees)
    [] c.fn = "pumpswap_frontrun_sell" ->
         LET f == << c.fees[1] * 100, c.fees[2] * 100, c.fees[3] * 100 >>
             e == pumpswap_calculate_expected_output(c.target, c.reserve_in,
                                                     c.reserve_out, f).val
         IN  pumpswap_calculate_optimal_sandwich_amount(c.reserve_in,
                c.reserve_out, SafeSlippage(e, c.minimum, TRUE), c.target, f)
    [] c.fn = "clmm_frontrun_swap" -> c.plan

\* The size of the front-run swap the handler asked the venue for: the
\* exact input, or the exact output of an exact-output front-run.
RequestedSize(c) ==
  IF c.fn = "cpmm_frontrun_swap_base_output" THEN c.o.swap_min
  ELSE c.o.swap_in

PlanBelowDust(c) ==
  \/ FrontrunPlan(c).err = "InsufficientSandwichAmount"
  \/ FrontrunPlan(c).err = "Ok" /\ FrontrunPlan(c).val < 100

\* C14: when the bisection planner's size is below 100, the front-run fails
\* with InsufficientSandwichAmount, asks for no swap and leaves no record;
\* and no front-run swap is asked for with a size below 100.
C14_DustFloorRefused ==
  calc.fn \in BisectionFrontruns =>
    /\ PlanBelowDust(calc) =>
         /\ calc.o.err = "InsufficientSandwichAmount"
         /\ calc.o.cpi = "none"
         /\ calc.o.rec = ZeroState
    /\ calc.o.cpi # "none" => RequestedSize(calc) >= 100

\* A planner returned a size below 100 and the handler refused it.
C14_DustPlanRefused ==
  /\ calc.fn \in BisectionFrontruns
  /\ FrontrunPlan(calc).err = "Ok"
  /\ FrontrunPlan(calc).val < 100
  /\ calc.o.err = "InsufficientSandwichAmount"

(***************************************************************************)
(* A front-run that fails while planning.                                  *)
(***************************************************************************)
PlanningErrors ==
  {"ExceededSlippage", "UnprofitableSandwich", "InsufficientSandwichAmount",
   "CalculationFailure", "InvalidVault"}

C16_BackrunMinimumProfit ==
  last.op \in BackrunOps /\ last.err = "Ok" /\ last.key \in DOMAIN store =>
    last.swap_min >= (store[last.key].frontrun_input_amount * 1005) \div 1000

(***************************************************************************)
(* The closed-form planner on the curve of 100 tokens and 1000 SOL.        *)
(***************************************************************************)
ClosedFormCase(c, amount_out, max_in) ==
  /\ c.v_tokens = 100 /\ c.v_sol = 1000
  /\ c.target_token_amount_out = amount_out
  /\ c.target_max_sol_amount_in = max_in

\* C17: with no fee, a victim buying 5 tokens for at most 60 is front-run
\* with an input of 65 for 6 tokens, at a profit of about 7, a ratio of
\* about 0.112 (between 0.109 and 0.115, the resolution of the fixed point).
C17_ClosedFormPlanAccepted ==
  /\ calc.fn = "compute_front_run_with_fee"
  /\ ClosedFormCase(calc, 5, 60)
  /\ calc.fee = 0 /\ calc.min_profit_pct = 5000
  => /\ calc.res.some
     /\ calc.res.b = 65
     /\ calc.res.a = 6
     /\ calc.res.profit_pct >= 109000 /\ calc.res.profit_pct <= 115000
     /\ (calc.res.profit_pct * calc.res.b) \div PartsPerMillion = 7

\* The planner has been evaluated on that case.
C17_ClosedFormPlanned ==
  /\ calc.fn = "compute_front_run_with_fee"
  /\ ClosedFormCase(calc, 5, 60)
  /\ calc.fee = 0 /\ calc.min_profit_pct = 5000
  /\ calc.res.some

\* C18: a victim buying 5 tokens for at most 40 gets no plan: the planner
\* returns None, and pumpfun_frontrun_buy fails with ExceededSlippage, the
\* victim's cost of 50 on the curve being no less than 40.
C18_TightBudgetRefused ==
  /\ calc.fn = "compute_front_run_with_fee" /\ ClosedFormCase(calc, 5, 40)
       => ~calc.res.some
  /\ calc.fn = "pumpfun_frontrun_buy" /\ ClosedFormCase(calc, 5, 40)
       => /\ calc.o.err = "ExceededSlippage"
          /\ calc.o.cpi = "none"
          /\ (5 * calc.v_sol) \div calc.v_tokens = 50

\* The handler has been called with the tight budget.
C18_TightBudgetCalled ==
  /\ calc.fn = "pumpfun_frontrun_buy"
  /\ ClosedFormCase(calc, 5, 40)
  /\ calc.o.err # "Ok"

(***************************************************************************)
(* A back-run whose swap fails.                                            *)
(***************************************************************************)
\* In r, every execution that ran after one that failed at its swap got to
\* its own swap: the record did not refuse it.
LaterReachesSwap(r) ==
  \A p, q \in Procs :
    /\ r.phase = "racing" /\ r.pc[p] = "done" /\ r.pc[q] = "done"
    /\ r.res[p].cpi = "failed"
    /\ \E i, j \in 1 .. Len(r.order) : i < j /\ r.order[i] = p /\ r.order[j] = q
    => r.res[q].cpi # "none"

\* C19: a back-run whose swap fails returns the error of the swap, leaves
\* the record as it was and not complete, and emits no event; a back-run
\* that runs after it is not refused by the record.
C19_FailedSwapKeepsPending ==
  [][/\ \A p \in Procs :
          /\ race.phase = "racing" /\ race.pc[p] = "running"
          /\ race'.pc[p] = "done" /\ race'.res[p].cpi = "failed"
          => /\ race'.res[p].err = "SwapFailed"
             /\ store' = store
             /\ ~store'[race.key].is_complete
             /\ events' = events
             /\ last'.ev = NoEvent
     /\ LaterReachesSwap(race')]_vars

\* A back-run failed at its swap, and the one that ran after it completed
\* the record.
C19_CompletedAfterFailedSwap ==
  /\ RaceOver
  /\ \E p, q \in Procs :
       race.res[p].cpi = "failed" /\ RanBefore(p, q) /\ Completes(q)

(***************************************************************************)
(* A back-run for a sandwich_id no front-run has recorded.                 *)
(***************************************************************************)
\* The address a back-run called with sandwich_id = s reads its record at.
BackrunSeed(op, s) ==
  IF op \in {"pumpfun_backrun_buy", "amm_backrun_swap_base_in",
             "clmm_backrun_swap"}
    THEN BorshString(Args1(s)).val
    ELSE BorshU64(Args1(s)).val

\* A front-run called with sandwich_id = s has succeeded: it left a record
\* that carries s.
FrontrunSucceededFor(s) ==
  \E k \in DOMAIN store : store[k].sandwich_id = s

\* C20: a back-run called with a sandwich_id for which no front-run has
\* succeeded fails, asks for no swap, creates no record and emits no event.
C20_BackrunNeedsFrontrun ==
  [][\A s \in BackrunIds :
       /\ last'.op \in BackrunOps
       /\ last'.key = BackrunSeed(last'.op, s)
       /\ ~FrontrunSucceededFor(s)
       => /\ last'.err # "Ok"
          /\ last'.cpi = "none"
          /\ store' = store
          /\ events' = events]_vars

(***************************************************************************)
(* The profit of a candidate, leg by leg.                                  *)
(***************************************************************************)
\* The front-run of the candidate of c: what it costs, what it receives and
\* the reserves it leaves.
CycleFrontrun(c) ==
  IF c.planner = "calculate_optimal_sandwich_amount"
    THEN LET f == CurveSwapBaseInput(c.mid, c.reserve_in, c.reserve_out,
                                     c.fees[1], c.fees[2], c.fees[3])
         IN  [cost |-> c.mid, received |-> f.destination_amount_swapped,
              rin |-> c.reserve_in + f.source_amount_swapped,
              rout |-> c.reserve_out - f.destination_amount_swapped]
    ELSE LET f == CurveSwapBaseOutput(c.mid, c.reserve_in, c.reserve_out,
                                      c.fees[1], c.fees[2], c.fees[3])
         IN  [cost |-> f.source_amount_swapped, received |-> c.mid,
              rin |-> c.reserve_in + f.source_amount_swapped,
              rout |-> c.reserve_out - c.mid]

\* The reserves after the victim's trade on the reserves the front-run left.
CycleVictim(c) ==
  LET f == CycleFrontrun(c)
  IN  IF c.planner = "calculate_optimal_sandwich_amount"
        THEN LET v == CurveSwapBaseInput(c.target, f.rin, f.rout,
                                         c.fees[1], c.fees[2], c.fees[3])
             IN  [rin |-> f.rin + c.target,
                  rout |-> f.rout - v.destination_amount_swapped]
        ELSE LET v == CurveSwapBaseOutput(c.target, f.rin, f.rout,
                                          c.fees[1], c.fees[2], c.fees[3])
             IN  [rin |-> f.rin + v.source_amount_swapped,
                  rout |-> f.rout - c.target]

\* What the sale of exactly what the front-run received returns, less what
\* the front-run cost, floored at zero.
FullCycleProfit(c) ==
  LET sale == CurveSwapBaseInput(CycleFrontrun(c).received, CycleVictim(c).rout,
                                 CycleVictim(c).rin,
                                 c.fees[1], c.fees[2], c.fees[3])
  IN  saturating_sub(sale.destination_amount_swapped, CycleFrontrun(c).cost)

\* C21: in every bisection planner, the fixed-output one included, the
\* profit of a candidate is what the sale of the front-run's output after
\* the victim's trade returns, less the front-run's cost, floored at zero.
C21_ProfitIsFullCycle ==
  calc.fn = "candidate" /\ calc.res.ok => calc.res.profit = FullCycleProfit(calc)

\* The bisection planners of the fee-tiered constant-product and of the
\* concentrated-liquidity venue.
BoundedPlanners ==
  {"calculate_optimal_sandwich_amount", "calculate_optimal_clmm_sandwich_amount"}

\* The input reserve of a snapshot: the vault of the constant-product pool,
\* the virtual reserve L / sqrt(P) or L * sqrt(P) of the concentrated one.
SnapshotReserveIn(c) ==
  IF c.fn = "calculate_optimal_sandwich_amount" THEN c.reserve_in
  ELSE IF c.zero_for_one THEN MulDiv(c.liquidity, Q64, c.sqrt_price_x64)
  ELSE MulDiv(c.liquidity, c.sqrt_price_x64, Q64)

\* The interval the candidates are to stay in.
CandidateRange(c) == 1 .. (SnapshotReserveIn(c) \div 10)

\* C22: the bisection of the constant-product and of the concentrated-
\* liquidity planner ends after at most 20 rounds, every candidate it
\* evaluates lies in [1, reserve_in / 10], and so does the size it returns.
C22_BisectionBounded ==
  calc.fn \in BoundedPlanners =>
    /\ calc.res.rounds <= 20
    /\ calc.res.mids \subseteq CandidateRange(calc)
    /\ (calc.res.err = "Ok" => calc.res.val \in CandidateRange(calc))

\* The same statement for the constant-product planner alone.
C22_CpmmBisectionBounded ==
  calc.fn = "calculate_optimal_sandwich_amount" =>
    /\ calc.res.rounds <= 20
    /\ calc.res.mids \subseteq CandidateRange(calc)
    /\ (calc.res.err = "Ok" => calc.res.val \in CandidateRange(calc))

\* C23: on every snapshot with liquidity, for every fee rate, direction and
\* amount_out > 0, simulate_clmm_swap_input returns an amount_in > 0 whose
\* simulate_clmm_swap_output on the same snapshot and direction is at least
\* amount_out, up to one unit of rounding.
C23_QuoteInputInvertsOutput ==
  calc.fn = "simulate_clmm_swap_input" /\ calc.liquidity > 0 /\ calc.amount_out > 0 =>
    /\ calc.res.err = "Ok"
    /\ calc.res.val > 0
    /\ calc.back.err = "Ok"
    /\ calc.back.val + 1 >= calc.amount_out

\* The concentrated-liquidity quoting and search functions evaluated.
ClmmFunctions ==
  {"calculate_price_impact", "simulate_clmm_swap_input",
   "calculate_optimal_clmm_sandwich_amount"}

\* The product calculate_price_impact forms does not fit 128 bits.
ImpactProductOverflows(c) ==
  MulOverflows(clmm_adjusted_amount(c.amount, ClmmFeeRate),
               IF c.is_base_input = c.zero_for_one THEN c.sqrt_price_x64 ELSE Q64)

\* C24: in concentrated-liquidity quoting and search, every overflow of a
\* 128-bit product, every subtraction that would go negative and every
\* division by zero (liquidity = 0 included) is reported as
\* CalculationFailure: no call aborts the program, and none returns a
\* wrapped value.
C24_ClmmFaultsReported ==
  calc.fn \in ClmmFunctions =>
    /\ calc.res.err # "Panic"
    /\ (/\ calc.fn = "calculate_price_impact"
        /\ (calc.liquidity = 0 \/ ImpactProductOverflows(calc))
        => calc.res.err = "CalculationFailure")

\* The victim's declared limit of a price-limit evaluation.
VictimLimit == calc.target_limit

\* C29: when the victim declares a sqrt price limit, the limit
\* clmm_frontrun_swap passes to the pool is never beyond it in the
\* direction of the trade (at or above it for zero_for_one, at or below it
\* otherwise) and lies within [MIN_SQRT_PRICE_X64 + 1, MAX_SQRT_PRICE_X64 - 1].
C29_FrontrunLimitRespectsVictim ==
  calc.fn = "frontrun_sqrt_price_limit" /\ VictimLimit > 0 /\ calc.res.err = "Ok" =>
    /\ (calc.zero_for_one => calc.res.val >= VictimLimit)
    /\ (~calc.zero_for_one => calc.res.val <= VictimLimit)
    /\ calc.res.val >= MIN_SQRT_PRICE_X64 + 1
    /\ calc.res.val <= MAX_SQRT_PRICE_X64 - 1

\* The part of the statement that holds: the limit passed is never beyond
\* the victim's, and it is within the pool's range whenever the victim's is.
C29_LimitWithinVictimAndRange ==
  calc.fn = "frontrun_sqrt_price_limit" /\ VictimLimit > 0 /\ calc.res.err = "Ok" =>
    /\ (calc.zero_for_one => calc.res.val >= VictimLimit)
    /\ (~calc.zero_for_one => calc.res.val <= VictimLimit)
    /\ (VictimLimit \in (MIN_SQRT_PRICE_X64 + 1) .. (MAX_SQRT_PRICE_X64 - 1)
          => /\ calc.res.val >= MIN_SQRT_PRICE_X64 + 1
             /\ calc.res.val <= MAX_SQRT_PRICE_X64 - 1)

\* The step just taken is a front-run that succeeded.
FrontrunDone == last.op \in FrontrunOps /\ last.err = "Ok" /\ last.cpi = "done"

\* The record the step just taken wrote.
Written == store[last.key]

\* The venue takes the whole amount offered, except in the exact-output
\* swap of the constant-product pool, which takes the curve's quote.
SpentIsOffered == last.op # "cpmm_frontrun_swap_base_output"

C25_OfferedSizeRecorded ==
  /\ FrontrunDone
  /\ last.op \in {"cpmm_frontrun_swap_base_input", "pumpswap_frontrun_sell"}
  => Written.frontrun_input_amount = last.swap_in

\* C26: after a successful front-run on any venue, frontrun_output_amount
\* of the record is what the user received from that swap: the difference
\* of two readings of the user's output account, before and after it.
C26_RecordedOutputIsReceived ==
  FrontrunDone => Written.frontrun_output_amount = last.got

\* The exact-output buy of pumpfun records the amount it asked for, which
\* is what the venue delivers.
C26_PumpFunOutputRecorded ==
  FrontrunDone /\ last.op = "pumpfun_frontrun_buy"
    => Written.frontrun_output_amount = last.got

\* A pumpfun back-run follows a successful pumpfun front-run on the record
\* that front-run wrote, presenting the mint the front-run bought.
PumpFunBackrunFollows ==
  /\ last.op = "pumpfun_frontrun_buy" /\ last.err = "Ok"
  /\ last'.op = "pumpfun_backrun_buy"
  /\ last'.key = last.key
  /\ last'.mints[2] = store[last.key].token_out_mint

\* C27: on pumpfun a pending record can be completed: after a successful
\* pumpfun_frontrun_buy, a pumpfun_backrun_buy for the same record that
\* presents the same token mint passes the mint validation (it does not
\* fail with TokenMintMismatch) and, if its sell succeeds, sets
\* is_complete = true.
C27_PumpFunRecordCompletes ==
  [][PumpFunBackrunFollows =>
       /\ last'.err # "TokenMintMismatch"
       /\ (last'.cpi = "done" => store'[last'.key].is_complete)]_vars

\* The back-runs that quote their output on the pool before they swap.
QuotingBackruns == {"cpmm_backrun_swap_base_input", "clmm_backrun_swap"}

\* C28: the CPMM and the CLMM back-run fail with UnprofitableSandwich,
\* before they ask for any swap, whenever the output quoted on the current
\* pool does not exceed the recorded frontrun_input_amount, whatever that
\* amount is.
C28_UnprofitableBackrunRefused ==
  calc.fn \in QuotingBackruns /\ calc.expected <= calc.frontrun_input =>
    calc.o.err = "UnprofitableSandwich" /\ calc.o.cpi = "none"

\* What the test does refuse: a quote that does not exceed a recorded input
\* below 200, where floor(input * 1005 / 1000) is the input itself.
C28_SmallInputRefused ==
  /\ calc.fn \in QuotingBackruns
  /\ calc.expected <= calc.frontrun_input
  /\ calc.frontrun_input < 200
  => calc.o.err = "UnprofitableSandwich" /\ calc.o.cpi = "none"

\* The sandwich_id the step just taken was invoked with: a front-run writes
\* it into the record, a completing back-run reports it in its event.
InvokedId ==
  IF last'.op \in FrontrunOps THEN store'[last'.key].sandwich_id
  ELSE last'.ev.sandwich_id

\* C30: records are isolated per id: on any venue, a front-run or a
\* back-run invoked with sandwich_id = a never overwrites or completes the
\* record of another sandwich_id, whatever its other arguments are.
C30_RecordsIsolatedPerId ==
  [][\A k \in DOMAIN store :
       store'[k] # store[k] => store[k].sandwich_id = InvokedId]_vars

\* A step changes no record but the one it addresses.
C30_OnlyAddressedRecordChanges ==
  [][\A k \in DOMAIN store : store'[k] # store[k] => k = last'.key]_vars
====
